---- MODULE Spec2Model ----
(***************************************************************************)
(* Token creation API of the Solana token creator.                         *)
(*                                                                         *)
(* src/pages/api/create-token-v2.ts holds the two API routes: the v2       *)
(* handler (lines 96-423, two transactions) and the v1 handler (lines      *)
(* 503-738, one transaction).  A request is handled by one sequential      *)
(* async control flow; every await is a step of the model.  The chain RPC  *)
(* and the web3 libraries are collaborators: what they return or throw is  *)
(* chosen nondeterministically from small sets.                            *)
(***************************************************************************)
EXTENDS Integers, Sequences, FiniteSets, TLC

VARIABLES
    req,            \* req[r]: the body and method of request r (never changes)
    pc,             \* pc[r]: the next await / step of request r's handler
    resp,           \* resp[r]: <<>> or <<response>> once res.status().json() ran
    warnings,       \* warnings[r]: the handler's `warnings` array
    mintKeypair,    \* mintKeypair[r]: <<>> or <<key>> made by Keypair.generate()
    lamports,       \* lamports[r]: rent-exempt minimum returned by the RPC
    hashes,         \* hashes[r][p]: finality reference fetched for phase p
    tx,             \* tx[r][p]: the Transaction object of phase p
    phase,          \* phase[r][p]: how far the transaction of phase p got
    sizeChecked,    \* sizeChecked[r]: phases whose size was compared to the ceiling
    sent,           \* sent[r]: the transactions passed to sendRawTransaction
    rpc,            \* rpc[r]: the network calls request r has made, in order
    backendSecret,  \* process.env.BACKEND_KEYPAIR_SECRET
    backendBalance, \* lamports owned by the custodial signer on chain
    chainMints,     \* mints (with their metadata) that exist on chain
    chainTokens,    \* token accounts on chain and their balances
    blockHeight,    \* the chain's block height
    keysGenerated,  \* number of keypairs Keypair.generate() has produced
    caught,         \* per request: the error its catch block has caught, if any
    form            \* the state of the TokenCreationForm component in the browser

vars == <<req, pc, resp, warnings, mintKeypair, lamports, hashes, tx, phase,
          sizeChecked, sent, rpc, backendSecret, backendBalance, chainMints,
          chainTokens, blockHeight, keysGenerated, caught, form>>

(***************************************************************************)
(* Program constants.                                                      *)
(***************************************************************************)
MAX_TRANSACTION_SIZE == 1232
COMPUTE_UNIT_LIMIT == 400000
COMPUTE_UNIT_PRICE == 1
TX2_COMPUTE_UNIT_LIMIT == 200000
NAME_MAX == 32
SYMBOL_MAX == 10
DESCRIPTION_MAX == 200
decimals == 9
TOKEN_DECIMALS == 9
MAX_PREPURCHASE_AMOUNT == 1000000000
LAMPORTS_PER_SOL == 1000000000
MINT_RENT == 1440000
TX2_SIZE == 404
BLOCKHASH_VALIDITY == 150

(***************************************************************************)
(* Bounds of the model.                                                    *)
(***************************************************************************)
MaxSizeExcess == 1     \* tx1 may serialize to up to ceiling + MaxSizeExcess bytes
MaxBalanceSlack == 1   \* custodial balance ranges up to required + MaxBalanceSlack

(***************************************************************************)
(* Values.  An optional value is <<>> (undefined) or <<v>>.                *)
(***************************************************************************)
Undefined == <<>>
Some(v) == <<v>>
IsDefined(o) == o # <<>>

\* A string is a sequence of characters; Rep(c, n) is c repeated n times.
Rep(c, n) == [i \in 1..n |-> c]

\* JavaScript truthiness of an optional string: undefined and "" are falsy.
Falsy(o) == o = Undefined \/ o[1] = <<>>

\* String.prototype.substring(0, n)
Substring0(s, n) == SubSeq(s, 1, IF Len(s) < n THEN Len(s) ELSE n)

(***************************************************************************)
(* Numbers.  TLC integers are 32 bits wide, so amounts are kept as         *)
(* little-endian sequences of decimal digits (<<>> is zero).  A JavaScript *)
(* number is a sign, an integer part and whether it has a fraction of one  *)
(* half.                                                                   *)
(***************************************************************************)
RECURSIVE ToDigits(_)
ToDigits(n) == IF n = 0 THEN <<>> ELSE <<n % 10>> \o ToDigits(n \div 10)

RECURSIVE Trim(_)
Trim(a) == IF a = <<>> THEN <<>>
           ELSE IF a[Len(a)] = 0 THEN Trim(SubSeq(a, 1, Len(a) - 1))
           ELSE a

RECURSIVE AddDigits(_, _, _)
AddDigits(a, b, c) ==
    IF a = <<>> /\ b = <<>> THEN ToDigits(c)
    ELSE LET x == IF a = <<>> THEN 0 ELSE Head(a)
             y == IF b = <<>> THEN 0 ELSE Head(b)
             s == x + y + c
         IN <<s % 10>> \o AddDigits(IF a = <<>> THEN <<>> ELSE Tail(a),
                                    IF b = <<>> THEN <<>> ELSE Tail(b),
                                    s \div 10)

RECURSIVE MulDigit(_, _, _)
MulDigit(a, d, c) ==
    IF a = <<>> THEN ToDigits(c)
    ELSE LET p == Head(a) * d + c
         IN <<p % 10>> \o MulDigit(Tail(a), d, p \div 10)

\* BigInt multiplication (schoolbook, exact)
RECURSIVE BigIntMul(_, _)
BigIntMul(a, b) ==
    IF b = <<>> THEN <<>>
    ELSE Trim(AddDigits(MulDigit(a, Head(b), 0), <<0>> \o BigIntMul(a, Tail(b)), 0))

\* a < b on digit sequences without leading zeros
RECURSIVE LessDigits(_, _)
LessDigits(a, b) ==
    IF Len(a) # Len(b) THEN Len(a) < Len(b)
    ELSE IF a = <<>> THEN FALSE
    ELSE IF a[Len(a)] # b[Len(b)] THEN a[Len(a)] < b[Len(b)]
    ELSE LessDigits(SubSeq(a, 1, Len(a) - 1), SubSeq(b, 1, Len(b) - 1))

Num(n) == [neg |-> FALSE, int |-> ToDigits(n), half |-> FALSE]
Neg(n) == [neg |-> TRUE, int |-> ToDigits(n), half |-> FALSE]
Half(n) == [neg |-> FALSE, int |-> ToDigits(n), half |-> TRUE]

\* x < 0, x > 0 and Number.isInteger(x) on JavaScript numbers
LtZero(x) == x.neg /\ (x.int # <<>> \/ x.half)
GtZero(x) == ~x.neg /\ (x.int # <<>> \/ x.half)
IsInteger(x) == ~x.half

(***************************************************************************)
(* Keys and addresses.                                                     *)
(***************************************************************************)
BackendPublicKey == <<"backend", 0>>
MintKey(n) == <<"mint", n>>
ComputeBudgetProgram == <<"program", 1>>
SystemProgram == <<"program", 2>>
TOKEN_PROGRAM_ID == <<"program", 3>>
TOKEN_METADATA_PROGRAM_ID == <<"program", 4>>
ASSOCIATED_TOKEN_PROGRAM_ID == <<"program", 5>>

\* new PublicKey(text): base58 text of a 32-byte key (32 to 44 characters of
\* the base58 alphabet, which has no 0, O, I, l); anything else throws.
\* The result is <<key>>, or <<>> when the constructor throws.
PublicKeyOf(text) ==
    IF Len(text) \in 32..44 /\ \A i \in 1..Len(text) : text[i] \notin {"0", "O", "I", "l"}
    THEN Some(<<"user", text>>)
    ELSE Undefined

\* PublicKey.findProgramAddressSync(['metadata', program, mint], program)[0]
MetadataAddress(mint) == <<"metadata", mint>>

\* getAssociatedTokenAddress(mint, owner)
AssociatedTokenAddress(mint, owner) == <<"ata", <<mint, owner>>>>

(***************************************************************************)
(* Instructions and transactions.                                          *)
(***************************************************************************)
Instruction(op, prog, n, keys, amount, name, symbol) ==
    [op |-> op, programId |-> prog, n |-> n, keys |-> keys, amount |-> amount,
     name |-> name, symbol |-> symbol]

SetComputeUnitLimit(units) ==
    Instruction("setComputeUnitLimit", ComputeBudgetProgram, units, <<>>, <<>>, <<>>, <<>>)
SetComputeUnitPrice(microLamports) ==
    Instruction("setComputeUnitPrice", ComputeBudgetProgram, microLamports, <<>>, <<>>, <<>>, <<>>)
CreateAccount(from, new, lam) ==
    Instruction("createAccount", SystemProgram, lam, <<from, new>>, <<>>, <<>>, <<>>)
CreateInitializeMintInstruction(mint, dec, mintAuthority, freezeAuthority) ==
    Instruction("initializeMint", TOKEN_PROGRAM_ID, dec, <<mint, mintAuthority, freezeAuthority>>,
                <<>>, <<>>, <<>>)
BuildCreateMetadataAccountV3Instruction(pda, mint, mintAuthority, payer, updateAuthority, data) ==
    Instruction("createMetadataAccountV3", TOKEN_METADATA_PROGRAM_ID, 0,
                <<pda, mint, mintAuthority, payer, updateAuthority>>,
                <<>>, data.name, data.symbol)
CreateAssociatedTokenAccountInstruction(payer, ata, owner, mint) ==
    Instruction("createAssociatedTokenAccount", ASSOCIATED_TOKEN_PROGRAM_ID, 0, <<payer, ata, owner, mint>>,
                <<>>, <<>>, <<>>)
CreateMintToInstruction(mint, dest, authority, amount) ==
    Instruction("mintTo", TOKEN_PROGRAM_ID, 0, <<mint, dest, authority>>, amount, <<>>, <<>>)

\* new Transaction()
NewTransaction ==
    [built |-> TRUE, instructions |-> <<>>, recentBlockhash |-> 0,
     feePayer |-> Undefined, signers |-> {}, size |-> 0]
\* no Transaction object yet
NoTransaction == [NewTransaction EXCEPT !.built = FALSE]

NoHash == [blockhash |-> 0, lastValidBlockHeight |-> 0]

(***************************************************************************)
(* Requests.                                                               *)
(***************************************************************************)
ROUTES == {"v1", "v2"}
METHODS == {"POST", "GET"}
NAMES == {Undefined, Some(<<>>), Some(<<"T", "k", "n">>),
          Some(Rep("N", NAME_MAX)), Some(Rep("N", NAME_MAX + 1))}
SYMBOLS == {Undefined, Some(<<"t", "S">>), Some(Rep("S", SYMBOL_MAX)),
            Some(Rep("S", SYMBOL_MAX + 1))}
DESCRIPTIONS == {Undefined, Some(<<"d">>), Some(Rep("d", DESCRIPTION_MAX + 1))}
\* 2^64 = 18446744073709551616: the mint-to instruction holds its amount in
\* an unsigned 64-bit field
U64_LIMIT == <<6, 1, 6, 1, 5, 5, 9, 0, 7, 3, 7, 0, 4, 4, 7, 6, 4, 4, 8, 1>>

\* 18446744074, the least whole amount whose product with 10^9 reaches 2^64
LEAST_OVERFLOWING_AMOUNT ==
    [neg |-> FALSE, int |-> <<4, 7, 0, 4, 4, 7, 6, 4, 4, 8, 1>>, half |-> FALSE]

AMOUNTS == {Num(0), Num(1000), Num(MAX_PREPURCHASE_AMOUNT), Num(MAX_PREPURCHASE_AMOUNT + 1),
            Neg(1), Half(1), LEAST_OVERFLOWING_AMOUNT}
WALLETS == {Undefined, Some(<<"0", "x">>), Some(Rep("W", 44))}

REQUESTS ==
    [route : ROUTES, method : METHODS, name : NAMES, symbol : SYMBOLS,
     description : DESCRIPTIONS, prePurchaseAmount : AMOUNTS, userWallet : WALLETS]

SECRETS == {"absent", "malformed", "valid"}

\* lamports + Math.ceil(0.01 * LAMPORTS_PER_SOL)
RequiredLamports(lam) == lam + LAMPORTS_PER_SOL \div 100

BALANCES == (RequiredLamports(MINT_RENT) - 1)..(RequiredLamports(MINT_RENT) + MaxBalanceSlack)

\* sizes tx1.serialize() may have: they vary with the metadata
TX1_SIZES == (MAX_TRANSACTION_SIZE - 1)..(MAX_TRANSACTION_SIZE + MaxSizeExcess)

(***************************************************************************)
(* Errors.  A message is a sequence of text fragments; includes() looks    *)
(* for a fragment.  A thrown error is <<message>>, or <<>> when it has no  *)
(* message.                                                                *)
(***************************************************************************)
Includes(message, fragment) == \E i \in 1..Len(message) : message[i] = fragment

NetworkErrors == {Some(<<"fetch failed">>), Undefined}
SendErrors == NetworkErrors \cup
    {Some(<<"Transaction simulation failed: ", "blockhash not found">>),
     Some(<<"Transaction simulation failed: ", "insufficient funds", " for rent">>),
     Some(<<"insufficient funds", "; ", "blockhash not found">>)}
SerializeErrors == {Some(<<"Transaction too large", ": 1233 > 1232">>)}
BigIntErrors == {Some(<<"The number cannot be converted to a BigInt because it is not an integer">>)}

(***************************************************************************)
(* Responses.                                                              *)
(***************************************************************************)
\* faulty variant of ErrorResponse: the failure names a mint address
ErrorResponseNamingMint(status, message) ==
    [status |-> status, success |-> FALSE, error |-> Some(message),
     mintAddress |-> Some(MintKey(1)), name |-> Undefined, symbol |-> Undefined,
     description |-> Undefined, prePurchaseAmount |-> Undefined,
     signature |-> Undefined, mintSignature |-> Undefined,
     userTokenAccount |-> Undefined, warnings |-> Undefined]

ErrorResponse(status, message) ==
    [status |-> status, success |-> FALSE, error |-> Some(message),
     mintAddress |-> Undefined, name |-> Undefined, symbol |-> Undefined,
     description |-> Undefined, prePurchaseAmount |-> Undefined,
     signature |-> Undefined, mintSignature |-> Undefined,
     userTokenAccount |-> Undefined, warnings |-> Undefined]

MethodNotAllowed == <<"Method not allowed">>
MissingFields == <<"Missing required fields: name, symbol, or userWallet">>
NameTooLong == <<"Token name must be 32 characters or less (Solana transaction size limit)">>
SymbolTooLong == <<"Symbol must be 10 characters or less">>
NegativeAmount == <<"Pre-purchase amount cannot be negative">>
KeypairNotConfigured == <<"Backend keypair not configured">>
InvalidKeypair == <<"Invalid backend keypair format">>
InvalidWallet == <<"Invalid user wallet address">>
InsufficientSol == <<"Backend wallet has insufficient SOL (need at least ", "n", " SOL). Please fund the backend wallet.">>
TooLarge == <<"Transaction too large", " (", "n", " bytes). Try shorter name/symbol.">>
DescriptionWarning == <<"Description truncated to 200 characters to fit transaction size limit">>

(***************************************************************************)
(* Request validation: the synchronous head of both handlers.              *)
(***************************************************************************)
\* faulty variant of MissingRequired: only undefined counts as missing, "" passes
MissingRequiredUndefinedOnly(q) ==
    q.name = Undefined \/ q.symbol = Undefined \/ q.userWallet = Undefined

\* !name || !symbol || !userWallet
MissingRequired(q) == Falsy(q.name) \/ Falsy(q.symbol) \/ Falsy(q.userWallet)

\* faulty variant of NameIsTooLong: the limit off by one
NameIsTooLongOffByOne(q) == Len(q.name[1]) > NAME_MAX + 1

\* name.length > 32
NameIsTooLong(q) == Len(q.name[1]) > NAME_MAX

\* faulty variant of SymbolIsTooLong: the limit off by one
SymbolIsTooLongOffByOne(q) == Len(q.symbol[1]) > SYMBOL_MAX + 1

\* symbol.length > 10
SymbolIsTooLong(q) == Len(q.symbol[1]) > SYMBOL_MAX

\* description && description.length > 200
DescriptionIsLong(q) == ~Falsy(q.description) /\ Len(q.description[1]) > DESCRIPTION_MAX

\* faulty variant of AmountIsNegative: the check left out
AmountNeverNegative(q) == FALSE

\* prePurchaseAmount < 0
AmountIsNegative(q) == LtZero(q.prePurchaseAmount)

\* faulty variant of LoadBackendKeypair: a secret that does not decode is used
LoadBackendKeypairAbsentOnly(secret) ==
    IF secret = "absent" THEN Some(ErrorResponse(500, KeypairNotConfigured))
    ELSE Undefined

\* Loading the custodial keypair from the environment: <<>> when it loads,
\* <<response>> when the handler answers instead.
LoadBackendKeypair(secret) ==
    IF secret = "absent" THEN Some(ErrorResponse(500, KeypairNotConfigured))
    ELSE IF secret = "malformed" THEN Some(ErrorResponse(500, InvalidKeypair))
    ELSE Undefined

\* new PublicKey(userWallet) in its try/catch
CheckUserWallet(q) ==
    IF PublicKeyOf(q.userWallet[1]) = Undefined
    THEN Some(ErrorResponse(400, InvalidWallet))
    ELSE Undefined

\* faulty variant of ValidateV2: the length of the symbol is not checked
ValidateV2SymbolUnchecked(q, secret) ==
    IF q.method # "POST" THEN Some(ErrorResponse(405, MethodNotAllowed))
    ELSE IF MissingRequired(q) THEN Some(ErrorResponse(400, MissingFields))
    ELSE IF NameIsTooLong(q) THEN Some(ErrorResponse(400, NameTooLong))
    ELSE IF AmountIsNegative(q) THEN Some(ErrorResponse(400, NegativeAmount))
    ELSE IF LoadBackendKeypair(secret) # Undefined THEN LoadBackendKeypair(secret)
    ELSE CheckUserWallet(q)

\* v2 handler, lines 100-182: <<>> when the request passes, else <<response>>.
ValidateV2(q, secret) ==
    IF q.method # "POST" THEN Some(ErrorResponse(405, MethodNotAllowed))
    ELSE IF MissingRequired(q) THEN Some(ErrorResponse(400, MissingFields))
    ELSE IF NameIsTooLong(q) THEN Some(ErrorResponse(400, NameTooLong))
    ELSE IF SymbolIsTooLong(q) THEN Some(ErrorResponse(400, SymbolTooLong))
    ELSE IF AmountIsNegative(q) THEN Some(ErrorResponse(400, NegativeAmount))
    ELSE IF LoadBackendKeypair(secret) # Undefined THEN LoadBackendKeypair(secret)
    ELSE CheckUserWallet(q)

\* v1 handler, lines 507-575
ValidateV1(q, secret) ==
    IF q.method # "POST" THEN Some(ErrorResponse(405, MethodNotAllowed))
    ELSE IF MissingRequired(q) THEN Some(ErrorResponse(400, MissingFields))
    ELSE IF SymbolIsTooLong(q) THEN Some(ErrorResponse(400, SymbolTooLong))
    ELSE IF AmountIsNegative(q) THEN Some(ErrorResponse(400, NegativeAmount))
    ELSE IF LoadBackendKeypair(secret) # Undefined THEN LoadBackendKeypair(secret)
    ELSE CheckUserWallet(q)

\* The warnings array after line 135 has run (v2 only).
WarningsV2(q) ==
    IF q.method = "POST" /\ ~MissingRequired(q) /\ ~NameIsTooLong(q) /\ ~SymbolIsTooLong(q)
       /\ DescriptionIsLong(q)
    THEN <<DescriptionWarning>>
    ELSE <<>>

(***************************************************************************)
(* The catch blocks.                                                       *)
(***************************************************************************)
\* error.message || 'Failed to create token'
MessageOrDefault(e) == IF e = Undefined THEN <<"Failed to create token">> ELSE e[1]

\* faulty variant of CatchV2: 'insufficient funds' is looked for first
CatchV2FundsFirst(e) ==
    LET has(f) == e # Undefined /\ Includes(e[1], f)
    IN ErrorResponse(500,
        IF has("insufficient funds")
            THEN <<"Insufficient SOL in backend wallet. Please fund it.">>
        ELSE IF has("blockhash not found") THEN <<"Transaction expired. Please try again.">>
        ELSE IF has("Transaction too large")
            THEN <<"Transaction too large. Use shorter name/symbol.">>
        ELSE MessageOrDefault(e))

\* v2, lines 404-422
CatchV2(e) ==
    LET has(f) == e # Undefined /\ Includes(e[1], f)
    IN ErrorResponse(500,
        IF has("blockhash not found") THEN <<"Transaction expired. Please try again.">>
        ELSE IF has("insufficient funds")
            THEN <<"Insufficient SOL in backend wallet. Please fund it.">>
        ELSE IF has("Transaction too large")
            THEN <<"Transaction too large. Use shorter name/symbol.">>
        ELSE MessageOrDefault(e))

\* v1, lines 731-737
CatchV1(e) == ErrorResponse(500, MessageOrDefault(e))

\* faulty variant of Catch: a caught error is answered with status 400
CatchAsBadRequest(q, e) == ErrorResponse(400, MessageOrDefault(e))

Catch(q, e) == IF q.route = "v2" THEN CatchV2(e) ELSE CatchV1(e)

(***************************************************************************)
(* The token creation form, src/components/TokenCreationForm.tsx: values   *)
(* and pure functions.  Texts are sequences of characters.                 *)
(***************************************************************************)
MaxSubmits == 2        \* handleSubmit runs at most MaxSubmits times

LowerAlphabet ==
    <<"a", "b", "c", "d", "e", "f", "g", "h", "i", "j", "k", "l", "m",
      "n", "o", "p", "q", "r", "s", "t", "u", "v", "w", "x", "y", "z">>
UpperAlphabet ==
    <<"A", "B", "C", "D", "E", "F", "G", "H", "I", "J", "K", "L", "M",
      "N", "O", "P", "Q", "R", "S", "T", "U", "V", "W", "X", "Y", "Z">>

\* String.prototype.toUpperCase()
ToUpperCase(s) ==
    [i \in 1..Len(s) |->
        IF \E k \in 1..26 : LowerAlphabet[k] = s[i]
        THEN UpperAlphabet[CHOOSE k \in 1..26 : LowerAlphabet[k] = s[i]]
        ELSE s[i]]

\* String.prototype.trim()
RECURSIVE TrimText(_)
TrimText(s) ==
    IF s = <<>> THEN s
    ELSE IF Head(s) = " " THEN TrimText(Tail(s))
    ELSE IF s[Len(s)] = " " THEN TrimText(SubSeq(s, 1, Len(s) - 1))
    ELSE s

DigitChars == <<"0", "1", "2", "3", "4", "5", "6", "7", "8", "9">>
IsDigitChar(c) == \E k \in 1..10 : DigitChars[k] = c
DigitValue(c) == (CHOOSE k \in 1..10 : DigitChars[k] = c) - 1

\* parseFloat(text): <<>> for NaN, else <<number>>.  An optional minus sign,
\* the leading run of digits, and a fraction of one half when ".5" follows.
ParseFloat(text) ==
    LET neg == text # <<>> /\ Head(text) = "-"
        rest == IF neg THEN Tail(text) ELSE text
        n == Cardinality({k \in 1..Len(rest) : \A j \in 1..k : IsDigitChar(rest[j])})
        digits == Trim([k \in 1..n |-> DigitValue(rest[n + 1 - k])])
        half == n + 2 <= Len(rest) /\ rest[n + 1] = "." /\ rest[n + 2] = "5"
    IN IF n = 0 THEN Undefined
       ELSE Some([neg |-> neg, int |-> digits, half |-> half])

\* faulty variant of ExceedsMaxPrePurchase: the check left out
NeverExceedsMaxPrePurchase(x) == FALSE

\* prePurchase > MAX_PREPURCHASE_AMOUNT
ExceedsMaxPrePurchase(x) ==
    /\ ~x.neg
    /\ \/ LessDigits(ToDigits(MAX_PREPURCHASE_AMOUNT), x.int)
       \/ x.int = ToDigits(MAX_PREPURCHASE_AMOUNT) /\ x.half

FORM_FIELDS == {"name", "ticker", "description", "prePurchaseAmount"}

\* what the user may put into each field (maxLength of the ticker input
\* guards typing only)
FieldValues(field) ==
    CASE field = "name" -> {<<" ">>, <<"T", "k", "n">>}
      [] field = "ticker" -> {<<" ">>, <<" ", "t", "S">>, Rep("S", SYMBOL_MAX),
                              Rep("S", SYMBOL_MAX + 1)}
      [] field = "description" -> {<<"d">>}
      [] field = "prePurchaseAmount" ->
            {<<"1", "0", "0", "0">>, <<"-", "1">>, <<"1", ".", "5">>,
             <<"1">> \o Rep("0", 9), Rep("0", 9) \o <<"1">>, <<"1">> \o Rep("0", 8) \o <<"1">>}

\* useState({ name: '', ticker: '', description: '', prePurchaseAmount: '' })
EmptyFormData == [f \in FORM_FIELDS |-> <<>>]

\* the component after its first render
MountedForm ==
    [connected |-> FALSE, formData |-> EmptyFormData, loading |-> FALSE, error |-> "",
     step |-> "idle", submits |-> 0, requests |-> 0, body |-> Undefined,
     created |-> 0, outcome |-> "none"]

\* publicKey.toBase58() of the connected wallet
WalletBase58 == Rep("W", 44)

\* the JSON body of the request, lines 67-73
RequestBody(d, prePurchase) ==
    [name |-> Some(TrimText(d.name)),
     symbol |-> Some(ToUpperCase(TrimText(d.ticker))),
     description |-> IF TrimText(d.description) = <<>> THEN Undefined
                     ELSE Some(TrimText(d.description)),
     prePurchaseAmount |-> prePurchase,
     userWallet |-> Some(WalletBase58)]

\* data.error of a response that is not ok; what a rejected fetch or
\* response.json() carries as err.message
RESPONSE_ERRORS == {Undefined, Some("Invalid user wallet address")}
FETCH_ERRORS == {Undefined, Some("Failed to fetch")}

(***************************************************************************)
(* The state after construction: one request has arrived.                  *)
(***************************************************************************)
InitOf(ids, requests) ==
    /\ req \in [ids -> requests]
    /\ pc = [r \in ids |-> "start"]
    /\ resp = [r \in ids |-> Undefined]
    /\ warnings = [r \in ids |-> <<>>]
    /\ mintKeypair = [r \in ids |-> Undefined]
    /\ lamports = [r \in ids |-> 0]
    /\ hashes = [r \in ids |-> <<NoHash, NoHash>>]
    /\ tx = [r \in ids |-> <<NoTransaction, NoTransaction>>]
    /\ phase = [r \in ids |-> <<"None", "None">>]
    /\ sizeChecked = [r \in ids |-> {}]
    /\ sent = [r \in ids |-> <<>>]
    /\ rpc = [r \in ids |-> <<>>]
    /\ backendSecret \in SECRETS
    /\ backendBalance \in BALANCES
    /\ chainMints = {}
    /\ chainTokens = {}
    /\ blockHeight = 1
    /\ keysGenerated = 0
    /\ caught = [r \in ids |-> Undefined]

Init == InitOf({1}, REQUESTS) /\ form = MountedForm

\* Two requests in flight at once: each API call runs the handler on its own,
\* and their awaits interleave.  Both are acceptable requests, of either route,
\* with or without a pre-purchase.
CONCURRENT_REQUESTS ==
    [route : ROUTES, method : {"POST"}, name : {Some(<<"T", "k", "n">>)},
     symbol : {Some(<<"t", "S">>)}, description : {Undefined},
     prePurchaseAmount : {Num(0), Num(1000)}, userWallet : {Some(Rep("W", 44))}]

InitConcurrent == InitOf({1, 2}, CONCURRENT_REQUESTS) /\ form = MountedForm

Requests == DOMAIN pc

(***************************************************************************)
(* Helpers of the actions.                                                 *)
(***************************************************************************)
\* res.status(..).json(..): the handler returns
Respond(r, response) ==
    /\ resp' = [resp EXCEPT ![r] = Some(response)]
    /\ pc' = [pc EXCEPT ![r] = "done"]
    /\ UNCHANGED caught

\* a network call is made
Call(r, name) == rpc' = [rpc EXCEPT ![r] = Append(@, name)]

Goto(r, label) == pc' = [pc EXCEPT ![r] = label]

SetPhase(r, p, status) == phase' = [phase EXCEPT ![r][p] = status]

SignatureOf(r, p) == <<"sig", r, p>>

\* tx.add(instruction)
Add(t, instruction) == [t EXCEPT !.instructions = Append(@, instruction)]

\* faulty variant of Sign: only the fee payer signs
SignByFeePayerOnly(t, signers) == [t EXCEPT !.signers = {BackendPublicKey}]

\* tx.sign(...signers)
Sign(t, signers) == [t EXCEPT !.signers = signers]

\* the catch block answers the request
Throw(r, e) ==
    /\ caught' = [caught EXCEPT ![r] = Some(e)]
    /\ resp' = [resp EXCEPT ![r] = Some(Catch(req[r], e))]
    /\ pc' = [pc EXCEPT ![r] = "done"]

chainVars == <<backendBalance, chainMints, chainTokens, blockHeight>>
localVars == <<warnings, mintKeypair, lamports, hashes, tx, phase, sizeChecked>>

(***************************************************************************)
(* What the chain does with a transaction that lands.                      *)
(***************************************************************************)
InstructionsOf(t, op) ==
    {t.instructions[i] : i \in {j \in 1..Len(t.instructions) : t.instructions[j].op = op}}

\* metadata the transaction attaches to mint m: <<>> or <<[name, symbol]>>
MetadataFor(t, m) ==
    LET ms == {i \in InstructionsOf(t, "createMetadataAccountV3") : i.keys[2] = m}
    IN IF ms = {} THEN Undefined
       ELSE LET i == CHOOSE i \in ms : TRUE IN Some([name |-> i.name, symbol |-> i.symbol])

MintsCreatedBy(t) ==
    {[mint |-> i.keys[1], decimals |-> i.n, mintAuthority |-> i.keys[2],
      metadata |-> MetadataFor(t, i.keys[1])] : i \in InstructionsOf(t, "initializeMint")}

TokensMintedBy(t) ==
    {[account |-> i.keys[2], mint |-> i.keys[1], amount |-> i.amount] :
        i \in InstructionsOf(t, "mintTo")}

\* lamports the fee payer puts into the accounts the transaction creates
LamportsSpentBy(t) ==
    LET cs == InstructionsOf(t, "createAccount")
    IN IF cs = {} THEN 0 ELSE (CHOOSE i \in cs : TRUE).n

\* The transaction executes without error: all its instructions take effect.
Lands(t) ==
    /\ backendBalance >= LamportsSpentBy(t)
    /\ \A k \in TokensMintedBy(t) : \E m \in chainMints \cup MintsCreatedBy(t) : m.mint = k.mint
    /\ backendBalance' = backendBalance - LamportsSpentBy(t)
    /\ chainMints' = chainMints \cup MintsCreatedBy(t)
    /\ chainTokens' = chainTokens \cup TokensMintedBy(t)
    /\ blockHeight' = blockHeight + 1

\* The transaction executes and fails: none of its instructions takes effect.
LandsWithError ==
    /\ blockHeight' = blockHeight + 1
    /\ UNCHANGED <<backendBalance, chainMints, chainTokens>>

\* The chain passes the transaction's last valid block height without it.
Expires(h) ==
    /\ blockHeight' = h.lastValidBlockHeight + 1
    /\ UNCHANGED <<backendBalance, chainMints, chainTokens>>

\* faulty variant of ConfirmReference: phase 1's reference for every phase
ConfirmReferenceOfPhase1(r, p) == hashes[r][1]

\* { blockhash, lastValidBlockHeight } passed to confirmTransaction for phase p
ConfirmReference(r, p) == hashes[r][p]

ExpiredError == Some(<<"Signature has expired: ", "block height exceeded">>)

(***************************************************************************)
(* Steps shared by both handlers.                                          *)
(***************************************************************************)
\* faulty variant of GenerateKeypair: the same keypair every time
GenerateKeypairFixed(n) == Some(MintKey(1))

\* Keypair.generate()
GenerateKeypair(n) == Some(MintKey(n + 1))

\* lines 100-186 (v2), 507-579 (v1): validation up to the mint keypair
Validate(r) ==
    /\ pc[r] = "start"
    /\ LET q == req[r]
           rejected == IF q.route = "v2" THEN ValidateV2(q, backendSecret)
                       ELSE ValidateV1(q, backendSecret)
       IN /\ warnings' = [warnings EXCEPT ![r] = IF q.route = "v2" THEN WarningsV2(q) ELSE <<>>]
          /\ IF rejected # Undefined
             THEN /\ Respond(r, rejected[1])
                  /\ UNCHANGED <<mintKeypair, keysGenerated>>
             ELSE /\ mintKeypair' = [mintKeypair EXCEPT ![r] = GenerateKeypair(keysGenerated)]
                  /\ keysGenerated' = keysGenerated + 1
                  /\ Goto(r, "getRent")
                  /\ UNCHANGED <<resp, caught>>
    /\ UNCHANGED <<req, form, lamports, hashes, tx, phase, sizeChecked, sent, rpc, backendSecret>>
    /\ UNCHANGED chainVars

\* lines 192 (v2), 585 (v1): await getMinimumBalanceForRentExemptMint
GetRent(r) ==
    /\ pc[r] = "getRent"
    /\ Call(r, "getMinimumBalanceForRentExemption")
    /\ \/ /\ lamports' = [lamports EXCEPT ![r] = MINT_RENT]
          /\ Goto(r, "getBalance")
          /\ UNCHANGED <<resp, caught>>
       \/ /\ \E e \in NetworkErrors : Throw(r, e)
          /\ UNCHANGED lamports
    /\ UNCHANGED <<req, form, warnings, mintKeypair, hashes, tx, phase, sizeChecked, sent,
                   backendSecret, keysGenerated>>
    /\ UNCHANGED chainVars

\* faulty variant of InsufficientBalance: the lamports of the requests that
\* passed the check and have not finished count as reserved
InsufficientBalanceReserving(balance, lam) ==
    balance < RequiredLamports(lam) *
                (1 + Cardinality({q \in DOMAIN pc :
                        pc[q] \notin {"validate", "getRent", "getBalance", "done"}}))

\* faulty variant of InsufficientBalance: a balance equal to the threshold fails
InsufficientBalanceInclusive(balance, lam) == balance <= RequiredLamports(lam)

\* backendBalance < requiredLamports
InsufficientBalance(balance, lam) == balance < RequiredLamports(lam)

\* lines 195-204 (v2), 588-597 (v1): await getBalance and the pre-flight check
CheckBalance(r) ==
    /\ pc[r] = "getBalance"
    /\ Call(r, "getBalance")
    /\ \/ IF InsufficientBalance(backendBalance, lamports[r])
          THEN Respond(r, ErrorResponse(400, InsufficientSol))
          ELSE /\ Goto(r, IF req[r].route = "v2" THEN "getBlockhash1" ELSE "v1Build")
               /\ UNCHANGED <<resp, caught>>
       \/ \E e \in NetworkErrors : Throw(r, e)
    /\ UNCHANGED <<req, form, sent, backendSecret, keysGenerated>>
    /\ UNCHANGED localVars
    /\ UNCHANGED chainVars

\* connection.getLatestBlockhash('confirmed')
LatestBlockhash ==
    [blockhash |-> blockHeight, lastValidBlockHeight |-> blockHeight + BLOCKHASH_VALIDITY]

\* await getLatestBlockhash for phase p, then continue at `next`
GetBlockhash(r, p, next) ==
    /\ Call(r, "getLatestBlockhash")
    /\ \/ /\ hashes' = [hashes EXCEPT ![r][p] = LatestBlockhash]
          /\ Goto(r, next)
          /\ UNCHANGED <<resp, caught>>
       \/ /\ \E e \in NetworkErrors : Throw(r, e)
          /\ UNCHANGED hashes
    /\ UNCHANGED <<req, form, warnings, mintKeypair, lamports, phase, sizeChecked, sent,
                   backendSecret, keysGenerated>>
    /\ UNCHANGED chainVars

\* faulty variant of SendRawTransaction: a refused submission is not thrown,
\* the handler goes on to the confirmation
SendRawTransactionSwallowing(r, p, t, next) ==
    /\ Call(r, "sendRawTransaction")
    /\ sent' = [sent EXCEPT ![r] = Append(@, [phase |-> p, tx |-> t])]
    /\ \/ SetPhase(r, p, "Submitted")
       \/ SetPhase(r, p, "Rejected")
    /\ Goto(r, next)
    /\ UNCHANGED <<req, form, resp, caught, warnings, mintKeypair, lamports, hashes, sizeChecked,
                   backendSecret, keysGenerated>>
    /\ UNCHANGED chainVars

\* await connection.sendRawTransaction(t.serialize(), ...) for phase p
SendRawTransaction(r, p, t, next) ==
    /\ Call(r, "sendRawTransaction")
    /\ sent' = [sent EXCEPT ![r] = Append(@, [phase |-> p, tx |-> t])]
    /\ \/ /\ SetPhase(r, p, "Submitted")
          /\ Goto(r, next)
          /\ UNCHANGED <<resp, caught>>
       \/ /\ SetPhase(r, p, "Rejected")
          /\ \E e \in SendErrors : Throw(r, e)
    /\ UNCHANGED <<req, form, warnings, mintKeypair, lamports, hashes, sizeChecked,
                   backendSecret, keysGenerated>>
    /\ UNCHANGED chainVars

(***************************************************************************)
(* The v2 handler: two transactions.                                       *)
(***************************************************************************)
\* metadataData, lines 261-269
MetadataDataV2(q) ==
    [name |-> Substring0(q.name[1], NAME_MAX), symbol |-> Substring0(q.symbol[1], SYMBOL_MAX)]

\* faulty variant of BuildTx1: the metadata instruction is left to a later
\* transaction
BuildTx1WithoutMetadata(q, mint, lam, h) ==
    LET t0 == [NewTransaction EXCEPT !.recentBlockhash = h.blockhash,
                                     !.feePayer = Some(BackendPublicKey)]
        t1 == Add(t0, SetComputeUnitLimit(COMPUTE_UNIT_LIMIT))
        t2 == Add(t1, SetComputeUnitPrice(COMPUTE_UNIT_PRICE))
        t3 == Add(t2, CreateAccount(BackendPublicKey, mint, lam))
    IN Add(t3, CreateInitializeMintInstruction(mint, decimals, BackendPublicKey,
                                               BackendPublicKey))

\* TRANSACTION 1, lines 212-280
BuildTx1(q, mint, lam, h) ==
    LET t0 == [NewTransaction EXCEPT !.recentBlockhash = h.blockhash,
                                     !.feePayer = Some(BackendPublicKey)]
        t1 == Add(t0, SetComputeUnitLimit(COMPUTE_UNIT_LIMIT))
        t2 == Add(t1, SetComputeUnitPrice(COMPUTE_UNIT_PRICE))
        t3 == Add(t2, CreateAccount(BackendPublicKey, mint, lam))
        t4 == Add(t3, CreateInitializeMintInstruction(mint, decimals, BackendPublicKey,
                                                      BackendPublicKey))
    IN Add(t4, BuildCreateMetadataAccountV3Instruction(MetadataAddress(mint), mint,
                   BackendPublicKey, BackendPublicKey, BackendPublicKey, MetadataDataV2(q)))

\* faulty variant of MintAmount: scaled by 10 ** 6
MintAmountSixDecimals(x) == BigIntMul(x.int, ToDigits(10 ^ 6))

\* BigInt(prePurchaseAmount) * BigInt(10 ** decimals), for an integer amount
MintAmount(x) == BigIntMul(x.int, ToDigits(10 ^ decimals))

\* TRANSACTION 2, lines 326-354: up to the associated-account instruction
BuildTx2Head(mint, owner, h) ==
    LET t0 == [NewTransaction EXCEPT !.recentBlockhash = h.blockhash,
                                     !.feePayer = Some(BackendPublicKey)]
        t1 == Add(t0, SetComputeUnitLimit(TX2_COMPUTE_UNIT_LIMIT))
    IN Add(t1, CreateAssociatedTokenAccountInstruction(BackendPublicKey,
                   AssociatedTokenAddress(mint, owner), owner, mint))

\* TRANSACTION 2, lines 326-367
BuildTx2(q, mint, owner, h) ==
    Add(BuildTx2Head(mint, owner, h),
        CreateMintToInstruction(mint, AssociatedTokenAddress(mint, owner), BackendPublicKey,
                                MintAmount(q.prePurchaseAmount)))

\* faulty variants of ExceedsCeiling: the check left out; the ceiling off by one
NeverExceedsCeiling(size) == FALSE
ExceedsCeilingOffByOne(size) == size > MAX_TRANSACTION_SIZE + 1

\* tx1Size > MAX_TRANSACTION_SIZE
ExceedsCeiling(size) == size > MAX_TRANSACTION_SIZE

\* faulty variant of HasSecondPhase: >= 0 instead of > 0
HasSecondPhaseFromZero(q) == ~LtZero(q.prePurchaseAmount)

\* prePurchaseAmount > 0, line 319
HasSecondPhase(q) == GtZero(q.prePurchaseAmount)

\* faulty variant of SuccessV2: the fields of the second transaction left out
SuccessV2FirstPhaseOnly(r, withPhase2) ==
    [status |-> 200, success |-> TRUE, error |-> Undefined,
     mintAddress |-> mintKeypair[r], name |-> req[r].name, symbol |-> req[r].symbol,
     description |-> req[r].description,
     prePurchaseAmount |-> Some(req[r].prePurchaseAmount),
     signature |-> Some(SignatureOf(r, 1)), mintSignature |-> Undefined,
     userTokenAccount |-> Undefined,
     warnings |-> IF Len(warnings[r]) > 0 THEN Some(warnings[r]) ELSE Undefined]

\* the success response, lines 392-403
SuccessV2(r, withPhase2) ==
    LET q == req[r]
        mint == mintKeypair[r][1]
        owner == PublicKeyOf(q.userWallet[1])[1]
    IN [status |-> 200, success |-> TRUE, error |-> Undefined,
        mintAddress |-> Some(mint), name |-> q.name, symbol |-> q.symbol,
        description |-> q.description, prePurchaseAmount |-> Some(q.prePurchaseAmount),
        signature |-> Some(SignatureOf(r, 1)),
        mintSignature |-> IF withPhase2 THEN Some(SignatureOf(r, 2)) ELSE Undefined,
        userTokenAccount |-> IF withPhase2 THEN Some(AssociatedTokenAddress(mint, owner))
                             ELSE Undefined,
        warnings |-> IF Len(warnings[r]) > 0 THEN Some(warnings[r]) ELSE Undefined]

\* line 207
V2GetBlockhash1(r) ==
    /\ pc[r] = "getBlockhash1"
    /\ GetBlockhash(r, 1, "build1")
    /\ UNCHANGED tx

\* lines 212-280
V2BuildTx1(r) ==
    /\ pc[r] = "build1"
    /\ tx' = [tx EXCEPT ![r][1] = BuildTx1(req[r], mintKeypair[r][1], lamports[r], hashes[r][1])]
    /\ SetPhase(r, 1, "Planned")
    /\ Goto(r, "sign1")
    /\ UNCHANGED <<req, form, resp, caught, warnings, mintKeypair, lamports, hashes, sizeChecked, sent, rpc,
                   backendSecret, keysGenerated>>
    /\ UNCHANGED chainVars

\* line 283: tx1.sign(backendKeypair, mintKeypair)
V2SignTx1(r) ==
    /\ pc[r] = "sign1"
    /\ tx' = [tx EXCEPT ![r][1] = Sign(@, {BackendPublicKey, mintKeypair[r][1]})]
    /\ SetPhase(r, 1, "Signed")
    /\ Goto(r, "check1")
    /\ UNCHANGED <<req, form, resp, caught, warnings, mintKeypair, lamports, hashes, sizeChecked, sent, rpc,
                   backendSecret, keysGenerated>>
    /\ UNCHANGED chainVars

\* lines 284-292: serialize the signed tx1, compare its size to the ceiling
V2CheckSize1(r) ==
    /\ pc[r] = "check1"
    /\ \/ \E size \in TX1_SIZES :
             /\ tx' = [tx EXCEPT ![r][1].size = size]
             /\ sizeChecked' = [sizeChecked EXCEPT ![r] = @ \cup {1}]
             /\ IF ExceedsCeiling(size)
                THEN /\ Respond(r, ErrorResponse(400, TooLarge))
                     /\ UNCHANGED phase
                ELSE /\ Goto(r, "send1")
                     /\ SetPhase(r, 1, "SizeChecked")
                     /\ UNCHANGED <<resp, caught>>
       \/ /\ \E e \in SerializeErrors : Throw(r, e)
          /\ UNCHANGED <<tx, phase, sizeChecked>>
    /\ UNCHANGED <<req, form, warnings, mintKeypair, lamports, hashes, sent, rpc,
                   backendSecret, keysGenerated>>
    /\ UNCHANGED chainVars

\* lines 295-298
V2SendTx1(r) ==
    /\ pc[r] = "send1"
    /\ SendRawTransaction(r, 1, tx[r][1], "confirm1")
    /\ UNCHANGED tx

\* lines 301-319, and 392-403 when there is no second transaction.
\* confirmTransaction resolves when the transaction is in a block, executed
\* with or without error; it rejects when the block height passes the last
\* valid one, or with the execution error itself (an object with no message).
V2ConfirmTx1(r) ==
    /\ pc[r] = "confirm1"
    /\ Call(r, "confirmTransaction")
    /\ \/ /\ \/ Lands(tx[r][1]) /\ SetPhase(r, 1, "Confirmed")
             \/ LandsWithError /\ SetPhase(r, 1, "Failed")
          /\ IF HasSecondPhase(req[r])
             THEN Goto(r, "delay") /\ UNCHANGED <<resp, caught>>
             ELSE Respond(r, SuccessV2(r, FALSE))
       \/ /\ Expires(ConfirmReference(r, 1))
          /\ SetPhase(r, 1, "Expired")
          /\ Throw(r, ExpiredError)
       \/ /\ LandsWithError
          /\ SetPhase(r, 1, "Failed")
          /\ Throw(r, Undefined)
    /\ UNCHANGED <<req, form, warnings, mintKeypair, lamports, hashes, tx, sizeChecked, sent,
                   backendSecret, keysGenerated>>

\* faulty variant of V2SettleDelay: the timer never fires
V2SettleDelayForever(r) == FALSE

\* line 321: the settling delay
V2SettleDelay(r) ==
    /\ pc[r] = "delay"
    /\ Goto(r, "getBlockhash2")
    /\ UNCHANGED <<req, form, resp, caught, sent, rpc, backendSecret, keysGenerated>>
    /\ UNCHANGED localVars
    /\ UNCHANGED chainVars

\* lines 323-324
V2GetBlockhash2(r) ==
    /\ pc[r] = "getBlockhash2"
    /\ GetBlockhash(r, 2, "build2")
    /\ UNCHANGED tx

\* lines 326-367: BigInt() throws a RangeError on a number that is no integer
V2BuildTx2(r) ==
    /\ pc[r] = "build2"
    /\ LET q == req[r]
           mint == mintKeypair[r][1]
           owner == PublicKeyOf(q.userWallet[1])[1]
       IN IF IsInteger(q.prePurchaseAmount)
          THEN /\ tx' = [tx EXCEPT ![r][2] = BuildTx2(q, mint, owner, hashes[r][2])]
               /\ SetPhase(r, 2, "Planned")
               /\ Goto(r, "sign2")
               /\ UNCHANGED <<resp, caught>>
          ELSE /\ tx' = [tx EXCEPT ![r][2] = BuildTx2Head(mint, owner, hashes[r][2])]
               /\ \E e \in BigIntErrors : Throw(r, e)
               /\ UNCHANGED phase
    /\ UNCHANGED <<req, form, warnings, mintKeypair, lamports, hashes, sizeChecked, sent, rpc,
                   backendSecret, keysGenerated>>
    /\ UNCHANGED chainVars

\* line 369: tx2.sign(backendKeypair); its size is never compared to the ceiling
V2SignTx2(r) ==
    /\ pc[r] = "sign2"
    /\ tx' = [tx EXCEPT ![r][2] = [Sign(@, {BackendPublicKey}) EXCEPT !.size = TX2_SIZE]]
    /\ SetPhase(r, 2, "Signed")
    /\ Goto(r, "send2")
    /\ UNCHANGED <<req, form, resp, caught, warnings, mintKeypair, lamports, hashes, sizeChecked, sent, rpc,
                   backendSecret, keysGenerated>>
    /\ UNCHANGED chainVars

\* lines 372-375
V2SendTx2(r) ==
    /\ pc[r] = "send2"
    /\ SendRawTransaction(r, 2, tx[r][2], "confirm2")
    /\ UNCHANGED tx

\* lines 378-403
V2ConfirmTx2(r) ==
    /\ pc[r] = "confirm2"
    /\ Call(r, "confirmTransaction")
    /\ \/ /\ \/ Lands(tx[r][2]) /\ SetPhase(r, 2, "Confirmed")
             \/ LandsWithError /\ SetPhase(r, 2, "Failed")
          /\ Respond(r, SuccessV2(r, TRUE))
       \/ /\ Expires(ConfirmReference(r, 2))
          /\ SetPhase(r, 2, "Expired")
          /\ Throw(r, ExpiredError)
       \/ /\ LandsWithError
          /\ SetPhase(r, 2, "Failed")
          /\ Throw(r, Undefined)
    /\ UNCHANGED <<req, form, warnings, mintKeypair, lamports, hashes, tx, sizeChecked, sent,
                   backendSecret, keysGenerated>>

(***************************************************************************)
(* The v1 handler: one transaction.                                        *)
(***************************************************************************)
\* metadataData, lines 634-642
MetadataDataV1(q) == [name |-> q.name[1], symbol |-> q.symbol[1]]

\* lines 600-676: the transaction up to the associated-account instruction
BuildTxV1Head(q, mint, owner, lam) ==
    LET t1 == Add(NewTransaction, CreateAccount(BackendPublicKey, mint, lam))
        t2 == Add(t1, CreateInitializeMintInstruction(mint, decimals, BackendPublicKey,
                                                      BackendPublicKey))
        t3 == Add(t2, BuildCreateMetadataAccountV3Instruction(MetadataAddress(mint), mint,
                          BackendPublicKey, BackendPublicKey, BackendPublicKey,
                          MetadataDataV1(q)))
    IN IF HasSecondPhase(q)
       THEN Add(t3, CreateAssociatedTokenAccountInstruction(BackendPublicKey,
                        AssociatedTokenAddress(mint, owner), owner, mint))
       ELSE t3

\* lines 600-690
BuildTxV1(q, mint, owner, lam) ==
    IF HasSecondPhase(q)
    THEN Add(BuildTxV1Head(q, mint, owner, lam),
             CreateMintToInstruction(mint, AssociatedTokenAddress(mint, owner),
                                     BackendPublicKey, MintAmount(q.prePurchaseAmount)))
    ELSE BuildTxV1Head(q, mint, owner, lam)

\* the success response, lines 721-730
SuccessV1(r) ==
    LET q == req[r]
        mint == mintKeypair[r][1]
        owner == PublicKeyOf(q.userWallet[1])[1]
    IN [status |-> 200, success |-> TRUE, error |-> Undefined,
        mintAddress |-> Some(mint), name |-> q.name, symbol |-> q.symbol,
        description |-> q.description, prePurchaseAmount |-> Some(q.prePurchaseAmount),
        signature |-> Some(SignatureOf(r, 1)),
        mintSignature |-> Undefined,
        userTokenAccount |-> IF HasSecondPhase(q)
                             THEN Some(AssociatedTokenAddress(mint, owner))
                             ELSE Undefined,
        warnings |-> Undefined]

\* lines 600-690
V1BuildTx(r) ==
    /\ pc[r] = "v1Build"
    /\ LET q == req[r]
           mint == mintKeypair[r][1]
           owner == PublicKeyOf(q.userWallet[1])[1]
       IN IF HasSecondPhase(q) /\ ~IsInteger(q.prePurchaseAmount)
          THEN /\ tx' = [tx EXCEPT ![r][1] = BuildTxV1Head(q, mint, owner, lamports[r])]
               /\ \E e \in BigIntErrors : Throw(r, e)
               /\ UNCHANGED phase
          ELSE /\ tx' = [tx EXCEPT ![r][1] = BuildTxV1(q, mint, owner, lamports[r])]
               /\ SetPhase(r, 1, "Planned")
               /\ Goto(r, "v1Blockhash")
               /\ UNCHANGED <<resp, caught>>
    /\ UNCHANGED <<req, form, warnings, mintKeypair, lamports, hashes, sizeChecked, sent, rpc,
                   backendSecret, keysGenerated>>
    /\ UNCHANGED chainVars

\* lines 693-695
V1GetBlockhash(r) ==
    /\ pc[r] = "v1Blockhash"
    /\ GetBlockhash(r, 1, "v1Sign")
    /\ tx' = [tx EXCEPT ![r][1] = [@ EXCEPT !.recentBlockhash = hashes'[r][1].blockhash,
                                            !.feePayer = Some(BackendPublicKey)]]

\* line 698
V1SignTx(r) ==
    /\ pc[r] = "v1Sign"
    /\ tx' = [tx EXCEPT ![r][1] = Sign(@, {BackendPublicKey, mintKeypair[r][1]})]
    /\ SetPhase(r, 1, "Signed")
    /\ Goto(r, "v1Send")
    /\ UNCHANGED <<req, form, resp, caught, warnings, mintKeypair, lamports, hashes, sizeChecked, sent, rpc,
                   backendSecret, keysGenerated>>
    /\ UNCHANGED chainVars

\* lines 701-704: serialized and sent, whatever its size
V1SendTx(r) ==
    /\ pc[r] = "v1Send"
    /\ \E size \in TX1_SIZES :
          /\ tx' = [tx EXCEPT ![r][1].size = size]
          /\ SendRawTransaction(r, 1, tx'[r][1], "v1Confirm")

\* lines 707-730
V1ConfirmTx(r) ==
    /\ pc[r] = "v1Confirm"
    /\ Call(r, "confirmTransaction")
    /\ \/ /\ \/ Lands(tx[r][1]) /\ SetPhase(r, 1, "Confirmed")
             \/ LandsWithError /\ SetPhase(r, 1, "Failed")
          /\ Respond(r, SuccessV1(r))
       \/ /\ Expires(ConfirmReference(r, 1))
          /\ SetPhase(r, 1, "Expired")
          /\ Throw(r, ExpiredError)
       \/ /\ LandsWithError
          /\ SetPhase(r, 1, "Failed")
          /\ Throw(r, Undefined)
    /\ UNCHANGED <<req, form, warnings, mintKeypair, lamports, hashes, tx, sizeChecked, sent,
                   backendSecret, keysGenerated>>

(***************************************************************************)
(* The specification.                                                      *)
(***************************************************************************)
Next ==
    \/ \E r \in Requests : Validate(r)
    \/ \E r \in Requests : GetRent(r)
    \/ \E r \in Requests : CheckBalance(r)
    \/ \E r \in Requests : V2GetBlockhash1(r)
    \/ \E r \in Requests : V2BuildTx1(r)
    \/ \E r \in Requests : V2SignTx1(r)
    \/ \E r \in Requests : V2CheckSize1(r)
    \/ \E r \in Requests : V2SendTx1(r)
    \/ \E r \in Requests : V2ConfirmTx1(r)
    \/ \E r \in Requests : V2SettleDelay(r)
    \/ \E r \in Requests : V2GetBlockhash2(r)
    \/ \E r \in Requests : V2BuildTx2(r)
    \/ \E r \in Requests : V2SignTx2(r)
    \/ \E r \in Requests : V2SendTx2(r)
    \/ \E r \in Requests : V2ConfirmTx2(r)
    \/ \E r \in Requests : V1BuildTx(r)
    \/ \E r \in Requests : V1GetBlockhash(r)
    \/ \E r \in Requests : V1SignTx(r)
    \/ \E r \in Requests : V1SendTx(r)
    \/ \E r \in Requests : V1ConfirmTx(r)

Spec == Init /\ [][Next]_vars

SpecConcurrent == InitConcurrent /\ [][Next]_vars

\* Every await of the handler settles: the RPC node answers each call or the
\* call throws, and the timer of the settling delay fires; the synchronous
\* stretches between awaits run to their end.  The two steps that build the
\* mint-to instruction are enabled exactly when the handler stands before
\* them and always move it on, so their weak fairness is written out as
\* "the handler does not stand there forever".
Fairness ==
    \A r \in {1} :
        /\ WF_vars(Validate(r)) /\ WF_vars(GetRent(r)) /\ WF_vars(CheckBalance(r))
        /\ WF_vars(V2GetBlockhash1(r)) /\ WF_vars(V2BuildTx1(r)) /\ WF_vars(V2SignTx1(r))
        /\ WF_vars(V2CheckSize1(r)) /\ WF_vars(V2SendTx1(r)) /\ WF_vars(V2ConfirmTx1(r))
        /\ WF_vars(V2SettleDelay(r)) /\ WF_vars(V2GetBlockhash2(r))
        /\ WF_vars(V2SignTx2(r)) /\ WF_vars(V2SendTx2(r)) /\ WF_vars(V2ConfirmTx2(r))
        /\ WF_vars(V1GetBlockhash(r)) /\ WF_vars(V1SignTx(r)) /\ WF_vars(V1SendTx(r))
        /\ WF_vars(V1ConfirmTx(r))
        /\ []<>(pc[r] # "build2")
        /\ []<>(pc[r] # "v1Build")

InitFair == InitOf({1}, CONCURRENT_REQUESTS) /\ form = MountedForm

SpecFair == InitFair /\ [][Next]_vars /\ Fairness

(***************************************************************************)
(* The token creation form: its event handlers.                            *)
(***************************************************************************)
handlerVars == <<req, pc, resp, warnings, mintKeypair, lamports, hashes, tx, phase,
                 sizeChecked, sent, rpc, backendSecret, backendBalance, chainMints,
                 chainTokens, blockHeight, keysGenerated, caught>>

\* useWallet(): the wallet connects or disconnects
WalletChanges ==
    /\ form' = [form EXCEPT !.connected = ~@]
    /\ UNCHANGED handlerVars

\* handleChange, lines 20-24; the inputs are disabled while loading
HandleChange ==
    /\ ~form.loading
    /\ \E field \in FORM_FIELDS : \E value \in FieldValues(field) :
          form' = [form EXCEPT !.formData[field] = value, !.error = ""]
    /\ UNCHANGED handlerVars

\* handleSubmit, lines 26-73: from the event to the fetch call
HandleSubmit ==
    /\ form.step = "idle"
    /\ form.submits < MaxSubmits
    /\ LET d == form.formData
           parsed == ParseFloat(IF d.prePurchaseAmount = <<>> THEN <<"0">>
                                ELSE d.prePurchaseAmount)
           refuse(message) == form' = [form EXCEPT !.submits = @ + 1, !.error = message]
       IN IF ~form.connected THEN refuse("Please connect your wallet first")
          ELSE IF TrimText(d.name) = <<>> THEN refuse("Token name is required")
          ELSE IF TrimText(d.ticker) = <<>> THEN refuse("Token ticker is required")
          ELSE IF Len(d.ticker) > SYMBOL_MAX
              THEN refuse("Ticker symbol must be 10 characters or less")
          ELSE IF parsed = Undefined \/ LtZero(parsed[1])
              THEN refuse("Pre-purchase amount must be a valid positive number")
          ELSE IF ExceedsMaxPrePurchase(parsed[1])
              THEN refuse("Pre-purchase amount cannot exceed 1,000,000,000")
          ELSE form' = [form EXCEPT !.submits = @ + 1, !.loading = TRUE, !.error = "",
                                    !.step = "fetching", !.requests = @ + 1,
                                    !.body = Some(RequestBody(d, parsed[1]))]
    /\ UNCHANGED handlerVars

\* handleSubmit, lines 75-97: the fetch settles
FetchSettles ==
    /\ form.step = "fetching"
    /\ \/ form' = [form EXCEPT !.formData = EmptyFormData, !.created = @ + 1,
                               !.loading = FALSE, !.step = "idle", !.outcome = "ok"]
       \/ \E e \in RESPONSE_ERRORS :
             form' = [form EXCEPT !.error = IF e = Undefined THEN "Failed to create token"
                                            ELSE e[1],
                                  !.loading = FALSE, !.step = "idle", !.outcome = "notOk"]
       \/ \E e \in FETCH_ERRORS :
             form' = [form EXCEPT !.error = IF e = Undefined
                                            THEN "Failed to create token. Please try again."
                                            ELSE e[1],
                                  !.loading = FALSE, !.step = "idle", !.outcome = "threw"]
    /\ UNCHANGED handlerVars

NextForm ==
    \/ WalletChanges
    \/ HandleChange
    \/ HandleSubmit
    \/ FetchSettles

\* the form on its own: no request has reached the API handlers
InitForm ==
    /\ InitOf({}, REQUESTS)
    /\ backendSecret = "valid"
    /\ backendBalance = RequiredLamports(MINT_RENT)
    /\ form = MountedForm

SpecForm == InitForm /\ [][NextForm]_vars

(***************************************************************************)
(* Properties.                                                             *)
(***************************************************************************)
\* C1: in the v2 handler every transaction passed to sendRawTransaction, of
\* phase 1 or phase 2, has a serialized size of at most MAX_TRANSACTION_SIZE
\* (1232) bytes: an oversized plan is never submitted.
C1_SubmittedWithinCeiling ==
    \A r \in Requests :
        req[r].route = "v2" =>
            \A i \in 1..Len(sent[r]) : sent[r][i].tx.size <= MAX_TRANSACTION_SIZE

\* an oversized phase-1 plan was built and signed, and the handler is done
\* without having submitted anything
C1_Witness ==
    \E r \in Requests :
        /\ req[r].route = "v2"
        /\ tx[r][1].size > MAX_TRANSACTION_SIZE
        /\ pc[r] = "done"
        /\ sent[r] = <<>>

\* C2: in the v2 handler, when the signed phase-1 transaction serializes to
\* more than 1232 bytes the request has failed with a 'Transaction too large'
\* error, nothing was passed to sendRawTransaction and phase 2 was never built.
C2_TooLargeFailsFast ==
    \A r \in Requests :
        (req[r].route = "v2" /\ tx[r][1].size > MAX_TRANSACTION_SIZE) =>
            /\ pc[r] = "done"
            /\ resp[r] # Undefined
            /\ ~resp[r][1].success
            /\ Includes(resp[r][1].error[1], "Transaction too large")
            /\ sent[r] = <<>>
            /\ ~tx[r][2].built
            /\ phase[r][2] = "None"

\* the size check of phase 1 has rejected a transaction one byte too large
C2_Witness ==
    \E r \in Requests :
        /\ req[r].route = "v2"
        /\ tx[r][1].size = MAX_TRANSACTION_SIZE + 1
        /\ 1 \in sizeChecked[r]
        /\ resp[r] # Undefined
        /\ resp[r][1].status = 400

\* C3: in the v2 handler the phase-2 transaction has had its size compared to
\* the 1232-byte ceiling, as phase 1 has, before it is submitted.
C3_Phase2SizeChecked ==
    \A r \in Requests :
        (req[r].route = "v2" /\ \E i \in 1..Len(sent[r]) : sent[r][i].phase = 2) =>
            2 \in sizeChecked[r]

\* C4: a posted request whose name is longer than 32 characters or whose
\* symbol is longer than 10 makes the v2 handler answer 400 without any
\* network call, without a mint keypair and without a submission.
C4_TooLongRejectedOffline ==
    \A r \in Requests :
        LET q == req[r]
            long == \/ q.name # Undefined /\ Len(q.name[1]) > NAME_MAX
                    \/ q.symbol # Undefined /\ Len(q.symbol[1]) > SYMBOL_MAX
        IN (q.route = "v2" /\ q.method = "POST" /\ long) =>
              /\ rpc[r] = <<>>
              /\ sent[r] = <<>>
              /\ mintKeypair[r] = Undefined
              /\ pc[r] \in {"start", "done"}
              /\ pc[r] = "done" => (resp[r][1].status = 400 /\ ~resp[r][1].success)

\* a 33-character name, with every other field fine, has been answered
C4_Witness ==
    \E r \in Requests :
        /\ req[r].route = "v2"
        /\ req[r].method = "POST"
        /\ req[r].name # Undefined /\ Len(req[r].name[1]) = NAME_MAX + 1
        /\ req[r].symbol # Undefined /\ Len(req[r].symbol[1]) <= SYMBOL_MAX
        /\ req[r].userWallet # Undefined
        /\ backendSecret = "valid"
        /\ pc[r] = "done"
        /\ resp[r][1].status = 400

\* C5: a POST request whose name, symbol or userWallet is missing or empty is
\* answered 400 with success=false and the missing-fields error, by both
\* handlers, whatever else is wrong with it, with no network call and no
\* transaction submitted.
C5_MissingFieldsRejectedFirst ==
    \A r \in Requests :
        LET q == req[r]
            empty(f) == f = Undefined \/ Len(f[1]) = 0
        IN (q.method = "POST" /\ (empty(q.name) \/ empty(q.symbol) \/ empty(q.userWallet))) =>
              /\ rpc[r] = <<>>
              /\ sent[r] = <<>>
              /\ pc[r] \in {"start", "done"}
              /\ pc[r] = "done" =>
                    /\ resp[r][1].status = 400
                    /\ ~resp[r][1].success
                    /\ resp[r][1].error = Some(MissingFields)

\* an empty name together with a symbol that is too long and no custodial
\* key has been answered
C5_Witness ==
    \E r \in Requests :
        /\ req[r].method = "POST"
        /\ req[r].name = Some(<<>>)
        /\ req[r].symbol # Undefined /\ Len(req[r].symbol[1]) > SYMBOL_MAX
        /\ backendSecret = "absent"
        /\ pc[r] = "done"
        /\ resp[r][1].status = 400

\* C6: a request with prePurchaseAmount < 0, its required fields present and
\* within the length limits, is answered 400 and never has a transaction
\* submitted.
C6_NegativeAmountRejected ==
    \A r \in Requests :
        LET q == req[r]
            present(f) == f # Undefined /\ Len(f[1]) > 0
            x == q.prePurchaseAmount
        IN (/\ q.method = "POST"
            /\ present(q.name) /\ present(q.symbol) /\ present(q.userWallet)
            /\ Len(q.name[1]) <= NAME_MAX /\ Len(q.symbol[1]) <= SYMBOL_MAX
            /\ x.neg /\ (x.int # <<>> \/ x.half)) =>
              /\ sent[r] = <<>>
              /\ pc[r] \in {"start", "done"}
              /\ pc[r] = "done" => (resp[r][1].status = 400 /\ ~resp[r][1].success)

\* an otherwise acceptable request for -1 tokens has been answered
C6_Witness ==
    \E r \in Requests :
        /\ req[r].method = "POST"
        /\ req[r].name = Some(<<"T", "k", "n">>)
        /\ req[r].symbol = Some(<<"t", "S">>)
        /\ req[r].userWallet # Undefined /\ PublicKeyOf(req[r].userWallet[1]) # Undefined
        /\ req[r].prePurchaseAmount = Neg(1)
        /\ backendSecret = "valid"
        /\ pc[r] = "done"
        /\ resp[r][1].error = Some(NegativeAmount)

\* C7: a request whose prePurchaseAmount exceeds MAX_PREPURCHASE_AMOUNT
\* (1,000,000,000) is rejected by the handler's validation: no transaction
\* is built for it and none is submitted.
C7_OverMaximumRejected ==
    \A r \in Requests :
        LET x == req[r].prePurchaseAmount
        IN (~x.neg /\ LessDigits(ToDigits(MAX_PREPURCHASE_AMOUNT), x.int)) =>
              /\ ~tx[r][1].built
              /\ sent[r] = <<>>

\* C8: a request whose prePurchaseAmount is not an integer never has its
\* phase 1 submitted or confirmed.
C8_NonIntegerNeverSubmitted ==
    \A r \in Requests :
        req[r].prePurchaseAmount.half =>
            /\ sent[r] = <<>>
            /\ phase[r][1] \notin {"Submitted", "Confirmed"}

\* C9: a request with prePurchaseAmount == 0 that succeeds has had exactly
\* one transaction submitted, that of phase 1, and its response carries no
\* mintSignature and no userTokenAccount.
C9_ZeroAmountSinglePhase ==
    \A r \in Requests :
        (/\ req[r].prePurchaseAmount = Num(0)
         /\ resp[r] # Undefined
         /\ resp[r][1].success) =>
            /\ Len(sent[r]) = 1
            /\ sent[r][1].phase = 1
            /\ ~tx[r][2].built
            /\ resp[r][1].mintSignature = Undefined
            /\ resp[r][1].userTokenAccount = Undefined

\* the v2 handler has answered a request for 0 tokens with success
C9_Witness ==
    \E r \in Requests :
        /\ req[r].route = "v2"
        /\ req[r].prePurchaseAmount = Num(0)
        /\ resp[r] # Undefined
        /\ resp[r][1].status = 200
        /\ phase[r][1] = "Confirmed"

\* C10: for a valid request (an integer amount N, 0 < N <= the maximum) every
\* mint-to instruction built carries N * 10^9, that is the decimal digits of
\* N followed by nine zeros, and once the transaction that carries it is
\* confirmed the funded account holds exactly that amount.
C10_MintToAmountScaled ==
    \A r \in Requests :
        LET q == req[r]
            x == q.prePurchaseAmount
            scaled == [i \in 1..TOKEN_DECIMALS |-> 0] \o x.int
            funding == IF q.route = "v2" THEN 2 ELSE 1
        IN (/\ ~x.neg /\ ~x.half /\ x.int # <<>>
            /\ ~LessDigits(ToDigits(MAX_PREPURCHASE_AMOUNT), x.int)) =>
              /\ \A p \in 1..2 : \A i \in InstructionsOf(tx[r][p], "mintTo") : i.amount = scaled
              /\ phase[r][funding] = "Confirmed" =>
                    \E a \in chainTokens :
                        /\ a.account = AssociatedTokenAddress(mintKeypair[r][1],
                                                              PublicKeyOf(q.userWallet[1])[1])
                        /\ a.amount = scaled

\* phase 2 of a request for 1000 tokens is confirmed and the account holds
\* 1000 * 10^9 = 10^12 base units
C10_Witness ==
    \E r \in Requests :
        /\ req[r].route = "v2"
        /\ req[r].prePurchaseAmount = Num(1000)
        /\ phase[r][2] = "Confirmed"
        /\ \E a \in chainTokens : a.amount = <<0, 0, 0, 0, 0, 0, 0, 0, 0, 0, 0, 0, 1>>

\* C11: every request that passes validation has a mint keypair of its own:
\* two requests, identical or not, one after the other or interleaved, never
\* hold the same mint address, and the mint keypair of one request never
\* signs, nor is named by, a transaction of the other.
C11_FreshMintPerRequest ==
    \A r1 \in Requests : \A r2 \in Requests \ {r1} :
        mintKeypair[r1] # Undefined =>
            /\ mintKeypair[r2] # mintKeypair[r1]
            /\ \A p \in 1..2 :
                  /\ mintKeypair[r1][1] \notin tx[r2][p].signers
                  /\ \A i \in 1..Len(tx[r2][p].instructions) :
                        \A k \in 1..Len(tx[r2][p].instructions[i].keys) :
                            tx[r2][p].instructions[i].keys[k] # mintKeypair[r1][1]
            /\ (resp[r1] # Undefined /\ resp[r2] # Undefined
                 /\ resp[r1][1].success /\ resp[r2][1].success) =>
                    resp[r1][1].mintAddress # resp[r2][1].mintAddress

\* two identical requests have both been answered with success and both
\* mints are on the chain; request 2 generated its keypair first
C11_Witness ==
    /\ Requests = {1, 2}
    /\ req[1] = req[2]
    /\ resp[1] # Undefined /\ resp[1][1].success
    /\ resp[2] # Undefined /\ resp[2][1].success
    /\ mintKeypair[1] = Some(MintKey(2))
    /\ mintKeypair[2] = Some(MintKey(1))
    /\ Cardinality(chainMints) = 2

\* C12: once getBalance has been called with the custodial balance strictly
\* below the mint's rent-exempt minimum + 10,000,000 lamports, the request is
\* over without success, with no transaction built, no blockhash fetched and
\* nothing submitted, and unless that call itself failed the answer is the
\* insufficient-SOL error; with the balance at or above the threshold the
\* request is never answered with that error.
C12_BalancePreflight ==
    \A r \in Requests :
        LET threshold == lamports[r] + 10000000
            before == backendBalance + lamports[r] * Cardinality(chainMints)
            called(name) == \E i \in 1..Len(rpc[r]) : rpc[r][i] = name
            answered(m) == resp[r] # Undefined /\ resp[r][1].error = Some(m)
        IN called("getBalance") =>
              /\ before < threshold =>
                    /\ pc[r] = "done"
                    /\ ~resp[r][1].success
                    /\ answered(InsufficientSol) \/ resp[r][1].status = 500
                    /\ \A p \in 1..2 : ~tx[r][p].built
                    /\ ~called("getLatestBlockhash")
                    /\ sent[r] = <<>>
              /\ before >= threshold =>
                    /\ ~answered(InsufficientSol)
                    /\ pc[r] = "done" => resp[r][1].status # 400 \/ tx[r][1].built

\* the balance is one lamport short of the threshold and the request has
\* been answered with the insufficient-SOL error
C12_Witness ==
    \E r \in Requests :
        /\ lamports[r] = MINT_RENT
        /\ backendBalance = MINT_RENT + 10000000 - 1
        /\ resp[r] # Undefined
        /\ resp[r][1].error = Some(InsufficientSol)

\* C13: when phase 1 of a v2 request is confirmed and phase 2 is then
\* rejected at submission or expires unconfirmed, the answer is a non-success
\* that carries the address of the mint phase 1 created.
C13_PartialFailureNamesMint ==
    \A r \in Requests :
        (/\ req[r].route = "v2"
         /\ phase[r][1] = "Confirmed"
         /\ phase[r][2] \in {"Rejected", "Expired"}
         /\ resp[r] # Undefined) =>
            /\ ~resp[r][1].success
            /\ resp[r][1].mintAddress = mintKeypair[r]

\* C14: within one v2 request phase 2 is built, signed or submitted only
\* when phase 1 is Confirmed (it executed without error), so after a rejected,
\* failed or expired phase 1 there is no phase 2, and the two phases are never
\* both submitted and unsettled.
C14_Phase2OnlyAfterConfirmed ==
    \A r \in Requests :
        req[r].route = "v2" =>
            /\ (tx[r][2].built \/ phase[r][2] # "None" \/ pc[r] \in {"build2", "sign2", "send2", "confirm2"}) =>
                    phase[r][1] = "Confirmed"
            /\ ~(phase[r][1] = "Submitted" /\ phase[r][2] = "Submitted")

\* C15: every answer to a posted creation request has status 200, 400 or 500;
\* it is 200 exactly when success is true; it is 400 only when the request's
\* own input is at fault (a field missing or too long, a negative amount, a
\* malformed wallet, a transaction too large for its name and symbol); every
\* other failure, the custodial balance included, is a 500.
C15_StatusMatchesCause ==
    \A r \in Requests :
        (req[r].method = "POST" /\ resp[r] # Undefined) =>
            LET a == resp[r][1]
            IN /\ a.status \in {200, 400, 500}
               /\ a.status = 200 <=> a.success
               /\ a.status = 400 =>
                     a.error \in {Some(MissingFields), Some(NameTooLong), Some(SymbolTooLong),
                                  Some(NegativeAmount), Some(InvalidWallet), Some(TooLarge)}
               /\ a.error = Some(InsufficientSol) => a.status = 500

\* C16: a posted v2 request that breaks some input rule is answered 400 with
\* the message of the first rule it breaks in the order required fields,
\* name length, symbol length, negative amount, wallet well-formedness,
\* whatever the state of the custodial key.
C16_FirstFailingRuleReported ==
    \A r \in Requests :
        LET q == req[r]
            first ==
                IF MissingRequired(q) THEN Some(MissingFields)
                ELSE IF Len(q.name[1]) > 32 THEN Some(NameTooLong)
                ELSE IF Len(q.symbol[1]) > 10 THEN Some(SymbolTooLong)
                ELSE IF LtZero(q.prePurchaseAmount) THEN Some(NegativeAmount)
                ELSE IF PublicKeyOf(q.userWallet[1]) = Undefined THEN Some(InvalidWallet)
                ELSE Undefined
        IN (q.route = "v2" /\ q.method = "POST" /\ first # Undefined /\ pc[r] = "done") =>
              /\ resp[r][1].status = 400
              /\ resp[r][1].error = first

\* C17: a posted v2 request whose userWallet is present but is no well-formed
\* public key never makes a network call, never gets a mint keypair and never
\* has a transaction submitted, and it is answered 400.
C17_MalformedWalletRejected ==
    \A r \in Requests :
        LET q == req[r]
        IN (/\ q.route = "v2" /\ q.method = "POST"
            /\ ~Falsy(q.userWallet)
            /\ PublicKeyOf(q.userWallet[1]) = Undefined) =>
              /\ rpc[r] = <<>>
              /\ mintKeypair[r] = Undefined
              /\ sent[r] = <<>>
              /\ pc[r] \in {"start", "done"}
              /\ pc[r] = "done" => (resp[r][1].status = 400 /\ ~resp[r][1].success)

\* C18: a v2 request whose description is longer than 200 characters is not
\* rejected for it, and when the request succeeds the response carries the
\* truncation warning and a description cut to its first 200 characters.
C18_LongDescriptionTruncated ==
    \A r \in Requests :
        LET q == req[r]
        IN (/\ q.route = "v2"
            /\ q.description # Undefined /\ Len(q.description[1]) > 200
            /\ resp[r] # Undefined /\ resp[r][1].success) =>
              /\ resp[r][1].warnings = Some(<<DescriptionWarning>>)
              /\ resp[r][1].description = Some(Substring0(q.description[1], 200))

C20_PhasesMoveForward ==
    [][\A r \in Requests : \A p \in 1..2 :
          LET forward == {<<"None", "Planned">>, <<"Planned", "SizeChecked">>,
                          <<"SizeChecked", "Signed">>, <<"Signed", "Submitted">>,
                          <<"Signed", "Rejected">>, <<"Submitted", "Confirmed">>,
                          <<"Submitted", "Failed">>, <<"Submitted", "Rejected">>,
                          <<"Submitted", "Expired">>}
          IN (req[r].route = "v2" /\ phase'[r][p] # phase[r][p]) =>
                <<phase[r][p], phase'[r][p]>> \in forward]_vars

\* C21: confirmTransaction is called for a phase only when that phase's
\* sendRawTransaction has returned a signature: every confirmTransaction call
\* of a request directly follows a sendRawTransaction call, there are no more
\* of them than phases accepted at submission, and a phase whose submission
\* threw stays Rejected with the submission as the request's last call.
C21_ConfirmOnlyAfterSubmission ==
    \A r \in Requests :
        LET calls == rpc[r]
            confirms == {i \in 1..Len(calls) : calls[i] = "confirmTransaction"}
            accepted == {p \in 1..2 : phase[r][p] \in {"Submitted", "Confirmed", "Failed", "Expired"}}
        IN /\ \A i \in confirms : i > 1 /\ calls[i - 1] = "sendRawTransaction"
           /\ Cardinality(confirms) <= Cardinality(accepted)
           /\ \A p \in 1..2 :
                 phase[r][p] = "Rejected" =>
                    /\ pc[r] = "done"
                    /\ calls[Len(calls)] = "sendRawTransaction"
                    /\ Cardinality(confirms) = p - 1

\* phase 1 was confirmed, then the submission of phase 2 threw: there has
\* been one confirmTransaction call, that of phase 1
C21_Witness ==
    \E r \in Requests :
        /\ phase[r] = <<"Confirmed", "Rejected">>
        /\ resp[r] # Undefined
        /\ Len(sent[r]) = 2
        /\ Cardinality({i \in 1..Len(rpc[r]) : rpc[r][i] = "confirmTransaction"}) = 1

\* C22: a signed transaction carries the blockhash its own phase fetched;
\* phase 2 is built only after a second getLatestBlockhash call and carries a
\* blockhash other than phase 1's; the reference given to confirmTransaction
\* is the one on the phase's transaction, so a phase is Expired only when the
\* chain has passed the last valid block height fetched with that blockhash.
C22_OwnFinalityReference ==
    \A r \in Requests :
        LET fetches == {i \in 1..Len(rpc[r]) : rpc[r][i] = "getLatestBlockhash"}
        IN /\ \A p \in 1..2 :
                 /\ tx[r][p].signers # {} =>
                       /\ hashes[r][p] # NoHash
                       /\ tx[r][p].recentBlockhash = hashes[r][p].blockhash
                       /\ Cardinality(fetches) >= p
                 /\ phase[r][p] \in {"Submitted", "Confirmed", "Failed", "Expired"} =>
                       ConfirmReference(r, p).blockhash = tx[r][p].recentBlockhash
                 /\ phase[r][p] = "Expired" =>
                       blockHeight = tx[r][p].recentBlockhash + BLOCKHASH_VALIDITY + 1
           /\ tx[r][2].built =>
                 /\ Cardinality(fetches) = 2
                 /\ tx[r][2].recentBlockhash # tx[r][1].recentBlockhash

\* phase 2 expired: the chain is one block past the last valid height of the
\* second blockhash, which was fetched after phase 1 landed
C22_Witness ==
    \E r \in Requests :
        /\ phase[r] = <<"Confirmed", "Expired">>
        /\ hashes[r][2].blockhash > hashes[r][1].blockhash
        /\ blockHeight = hashes[r][2].lastValidBlockHeight + 1

\* C23: the first transaction of a request, once signed, is signed by exactly
\* the custodial key and the request's mint key; the second by the custodial
\* key alone; every submitted transaction is signed; and the requester's key
\* signs nothing.
C23_SignersOfEachPhase ==
    \A r \in Requests :
        /\ tx[r][1].signers # {} =>
              /\ mintKeypair[r] # Undefined
              /\ tx[r][1].signers = {BackendPublicKey, mintKeypair[r][1]}
        /\ tx[r][2].signers \in {{}, {BackendPublicKey}}
        /\ \A p \in 1..2 :
              /\ phase[r][p] \notin {"None", "Planned"} => tx[r][p].signers # {}
              /\ \A k \in tx[r][p].signers : k[1] # "user"
        /\ \A i \in 1..Len(sent[r]) :
              /\ mintKeypair[r] # Undefined
              /\ sent[r][i].tx.signers =
                     IF sent[r][i].phase = 1 THEN {BackendPublicKey, mintKeypair[r][1]}
                     ELSE {BackendPublicKey}

\* both transactions of a v2 request have been submitted, the first signed
\* by two keys and the second by one
C23_Witness ==
    \E r \in Requests :
        /\ Len(sent[r]) = 2
        /\ Cardinality(sent[r][1].tx.signers) = 2
        /\ sent[r][2].tx.signers = {BackendPublicKey}
        /\ mintKeypair[r][1] \in sent[r][1].tx.signers

\* C24: the handler is in its settling delay only for a v2 request with
\* prePurchaseAmount > 0 whose phase 1 is Confirmed, with one transaction
\* submitted and phase 2's blockhash not fetched yet; phase 2's blockhash is
\* fetched and phase 2 submitted only past the delay; and a request without a
\* second phase never waits.
C24_DelayBetweenPhases ==
    \A r \in Requests :
        /\ pc[r] = "delay" =>
              /\ req[r].route = "v2"
              /\ GtZero(req[r].prePurchaseAmount)
              /\ phase[r] = <<"Confirmed", "None">>
              /\ hashes[r][2] = NoHash
              /\ Len(sent[r]) = 1
        /\ (hashes[r][2] # NoHash \/ Len(sent[r]) = 2) =>
              /\ GtZero(req[r].prePurchaseAmount)
              /\ phase[r][1] = "Confirmed"
              /\ pc[r] \in {"build2", "sign2", "send2", "confirm2", "done"}

\* C25: each phase of a request is submitted at most once, a request with
\* prePurchaseAmount = 0 submits at most one transaction, and once a phase
\* has failed (its submission refused, its confirmation expired or its
\* execution failed) the request submits nothing more.
C25_NoRetryNoCompensation ==
    \A r \in Requests :
        LET submissions(p) == {i \in 1..Len(sent[r]) : sent[r][i].phase = p}
            failed(p) == phase[r][p] \in {"Rejected", "Expired", "Failed"}
        IN /\ \A p \in 1..2 : Cardinality(submissions(p)) <= 1
           /\ req[r].prePurchaseAmount = Num(0) => Len(sent[r]) <= 1
           /\ failed(1) => Len(sent[r]) = 1 /\ pc[r] = "done"
           /\ failed(2) => Len(sent[r]) = 2 /\ pc[r] = "done"

\* C26: a failure response carries no mint address and no signature when
\* phase 1 is not Confirmed, and no second signature and no token account
\* address when phase 2 is not Confirmed.
C26_FailureNamesNoUnconfirmedAddress ==
    \A r \in Requests :
        (resp[r] # Undefined /\ ~resp[r][1].success) =>
            /\ phase[r][1] # "Confirmed" =>
                  /\ resp[r][1].mintAddress = Undefined
                  /\ resp[r][1].signature = Undefined
            /\ phase[r][2] # "Confirmed" =>
                  /\ resp[r][1].mintSignature = Undefined
                  /\ resp[r][1].userTokenAccount = Undefined

\* a request whose mint keypair exists and whose phase 1 was submitted and
\* expired has been answered with a failure
C26_Witness ==
    \E r \in Requests :
        /\ mintKeypair[r] # Undefined
        /\ phase[r][1] = "Expired"
        /\ resp[r] # Undefined
        /\ ~resp[r][1].success
        /\ resp[r][1].mintAddress = Undefined

\* C27: whatever error the v2 catch block has caught, the request is answered
\* 500 with exactly one message: 'Transaction expired...' when the error's
\* message contains 'blockhash not found'; otherwise 'Insufficient SOL...'
\* when it contains 'insufficient funds'; otherwise 'Transaction too large...'
\* when it contains 'Transaction too large'; otherwise the error's own
\* message, or 'Failed to create token' when it has none.
C27_ClassifierPrecedence ==
    \A r \in Requests :
        (req[r].route = "v2" /\ caught[r] # Undefined) =>
            LET e == caught[r][1]
                text == IF e = Undefined THEN <<>> ELSE e[1]
                has(f) == \E i \in 1..Len(text) : text[i] = f
                expected ==
                    IF has("blockhash not found")
                        THEN <<"Transaction expired. Please try again.">>
                    ELSE IF has("insufficient funds")
                        THEN <<"Insufficient SOL in backend wallet. Please fund it.">>
                    ELSE IF has("Transaction too large")
                        THEN <<"Transaction too large. Use shorter name/symbol.">>
                    ELSE IF e = Undefined THEN <<"Failed to create token">>
                    ELSE text
            IN /\ pc[r] = "done"
               /\ resp[r] # Undefined
               /\ resp[r][1].status = 500
               /\ ~resp[r][1].success
               /\ resp[r][1].error = Some(expected)

\* an error whose message contains both 'insufficient funds' and 'blockhash
\* not found' was caught and answered as an expired transaction
C27_Witness ==
    \E r \in Requests :
        /\ req[r].route = "v2"
        /\ caught[r] = Some(Some(<<"insufficient funds", "; ", "blockhash not found">>))
        /\ resp[r] # Undefined
        /\ resp[r][1].error = Some(<<"Transaction expired. Please try again.">>)

\* C28: a phase that was submitted and passed its last valid block height
\* unconfirmed is Expired, and the request is then answered with the
\* expired-transaction message ('Transaction expired. Please try again.'),
\* the one that tells the caller to retry the whole request.
C28_ExpiryClassifiedAsExpired ==
    \A r \in Requests :
        (req[r].route = "v2" /\ \E p \in 1..2 : phase[r][p] = "Expired") =>
            /\ pc[r] = "done"
            /\ resp[r] # Undefined
            /\ resp[r][1].error = Some(<<"Transaction expired. Please try again.">>)

\* C29: when every awaited call settles, every request is in the end
\* answered and stays so with no phase left submitted and unsettled (each
\* submitted phase was refused, expired, or was included in a block); and a
\* response once sent is never replaced by a second one.
C29_EveryRequestTerminates ==
    /\ [][\A r \in Requests : resp[r] # Undefined => resp'[r] = resp[r]]_vars
    /\ <>[](\A r \in Requests :
              /\ pc[r] = "done"
              /\ resp[r] # Undefined
              /\ \A p \in 1..2 : phase[r][p] # "Submitted")

\* a v2 request that went through both phases has been answered: phase 1
\* was confirmed and phase 2 reached the end of its validity window
C29_Witness ==
    \E r \in Requests :
        /\ pc[r] = "done"
        /\ resp[r] # Undefined
        /\ phase[r] = <<"Confirmed", "Expired">>
        /\ Len(rpc[r]) = 8

\* C30: requests run unserialized against the custodial balance: the
\* pre-flight check of a request reads the balance of that moment and
\* reserves nothing (it is refused for funds only when the balance itself
\* is below its threshold, whatever other requests have in flight, and the
\* check leaves the balance as it is), and a step of one request neither
\* moves nor waits for another request.
C30_RequestsNotSerialized ==
    [][\A r \in Requests :
          /\ (pc[r] = "getBalance" /\ pc'[r] # "getBalance") =>
                /\ backendBalance' = backendBalance
                /\ backendBalance < RequiredLamports(lamports[r]) => pc'[r] = "done"
                /\ backendBalance >= RequiredLamports(lamports[r]) =>
                      \/ pc'[r] \in {"getBlockhash1", "v1Build"}
                      \/ /\ pc'[r] = "done"
                         /\ resp'[r][1].status = 500
          /\ pc'[r] # pc[r] =>
                \A q \in Requests \ {r} : pc'[q] = pc[q] /\ resp'[q] = resp[q]]_vars

\* two v2 requests met a balance that passes the pre-flight check of one but
\* is below twice its threshold; both passed the check and both submitted
\* phase 1; one of the two transactions has been included, and the other is
\* still submitted while the balance is below the threshold its request
\* was checked against
C30_Witness ==
    \E r \in Requests : \E q \in Requests \ {r} :
        /\ req[r].route = "v2" /\ req[q].route = "v2"
        /\ backendBalance + LamportsSpentBy(tx[r][1]) < 2 * RequiredLamports(lamports[q])
        /\ Len(sent[r]) >= 1 /\ Len(sent[q]) >= 1
        /\ phase[r][1] = "Confirmed"
        /\ phase[q][1] = "Submitted"
        /\ backendBalance < RequiredLamports(lamports[q])

\* C31: while BACKEND_KEYPAIR_SECRET is absent or does not decode into a
\* keypair, a POST request whose fields pass the input checks (name, symbol
\* and wallet present, lengths within their limits, amount not negative)
\* makes no RPC call, generates no mint keypair, builds and submits no
\* transaction, and is answered with an error response: status 500 and the
\* message of the absent or of the malformed keypair.
C31_NoCustodialKeyNoWork ==
    \A r \in Requests :
        LET q == req[r]
            passes == /\ q.method = "POST"
                      /\ q.name # Undefined /\ q.name[1] # <<>>
                      /\ q.symbol # Undefined /\ q.symbol[1] # <<>>
                      /\ q.userWallet # Undefined /\ q.userWallet[1] # <<>>
                      /\ q.route = "v2" => Len(q.name[1]) <= 32
                      /\ Len(q.symbol[1]) <= 10
                      /\ ~(q.prePurchaseAmount.neg /\ q.prePurchaseAmount.int # <<>>)
        IN (backendSecret # "valid" /\ passes) =>
              /\ rpc[r] = <<>>
              /\ mintKeypair[r] = Undefined
              /\ keysGenerated = 0
              /\ sent[r] = <<>>
              /\ \A p \in 1..2 : ~tx[r][p].built /\ phase[r][p] = "None"
              /\ pc[r] \in {"start", "done"}
              /\ pc[r] = "done" =>
                    /\ resp[r] # Undefined
                    /\ ~resp[r][1].success
                    /\ resp[r][1].status = 500
                    /\ resp[r][1].error =
                          Some(IF backendSecret = "absent"
                               THEN <<"Backend keypair not configured">>
                               ELSE <<"Invalid backend keypair format">>)

\* the secret does not decode, and a request with acceptable fields and a
\* well-formed wallet has been answered with the keypair-format error
C31_Witness ==
    \E r \in Requests :
        /\ backendSecret = "malformed"
        /\ req[r].method = "POST"
        /\ req[r].name = Some(<<"T", "k", "n">>)
        /\ req[r].symbol = Some(<<"t", "S">>)
        /\ req[r].userWallet = Some(Rep("W", 44))
        /\ req[r].prePurchaseAmount = Num(1000)
        /\ pc[r] = "done"
        /\ resp[r] # Undefined
        /\ resp[r][1].error = Some(<<"Invalid backend keypair format">>)

\* C32: in the v2 handler every transaction submitted as phase 1 carries, in
\* this order, the two compute-budget instructions, the creation of the mint
\* account, the initialization of the mint and the creation of its metadata,
\* all three for the request's own mint, and the transaction of phase 2
\* carries none of the three; so every mint on chain has its metadata.
C32_MintAndMetadataAtomic ==
    /\ \A r \in Requests :
          req[r].route = "v2" =>
              \A i \in 1..Len(sent[r]) :
                  LET t == sent[r][i].tx
                      ops == [j \in 1..Len(t.instructions) |-> t.instructions[j].op]
                  IN IF sent[r][i].phase = 1
                     THEN /\ ops = <<"setComputeUnitLimit", "setComputeUnitPrice",
                                     "createAccount", "initializeMint",
                                     "createMetadataAccountV3">>
                          /\ mintKeypair[r] # Undefined
                          /\ t.instructions[3].keys[2] = mintKeypair[r][1]
                          /\ t.instructions[4].keys[1] = mintKeypair[r][1]
                          /\ t.instructions[5].keys[2] = mintKeypair[r][1]
                     ELSE \A j \in 1..Len(ops) :
                              ops[j] \notin {"createAccount", "initializeMint",
                                             "createMetadataAccountV3"}
    /\ \A m \in chainMints : m.metadata # Undefined

\* phase 1 of a v2 request was confirmed: its mint is on chain together with
\* its metadata
C32_Witness ==
    \E r \in Requests :
        /\ req[r].route = "v2"
        /\ phase[r][1] = "Confirmed"
        /\ \E m \in chainMints :
              /\ m.mint = mintKeypair[r][1]
              /\ m.metadata # Undefined
              /\ m.metadata[1].name = <<"T", "k", "n">>

\* C33: in the v2 handler the name and the symbol carried by the metadata
\* instruction of a built phase-1 transaction, and of every phase-1
\* transaction submitted, are exactly the name and the symbol of the
\* request: substring(0, 32) and substring(0, 10) cut nothing off an input
\* the validator accepted.
C33_ValidatedContentUnaltered ==
    \A r \in Requests :
        req[r].route = "v2" =>
            LET same(t) ==
                    \A i \in InstructionsOf(t, "createMetadataAccountV3") :
                        /\ i.name = req[r].name[1]
                        /\ i.symbol = req[r].symbol[1]
            IN /\ tx[r][1].built =>
                     /\ InstructionsOf(tx[r][1], "createMetadataAccountV3") # {}
                     /\ same(tx[r][1])
               /\ \A j \in 1..Len(sent[r]) : same(sent[r][j].tx)

\* a name of exactly 32 characters and a symbol of exactly 10 went into a
\* phase-1 transaction that was submitted
C33_Witness ==
    \E r \in Requests :
        /\ req[r].route = "v2"
        /\ req[r].name = Some(Rep("N", 32))
        /\ req[r].symbol = Some(Rep("S", 10))
        /\ Len(sent[r]) >= 1
        /\ \E i \in InstructionsOf(sent[r][1].tx, "createMetadataAccountV3") :
              Len(i.name) = 32 /\ Len(i.symbol) = 10

\* C34: the symbol carried by the metadata instruction of a built
\* transaction and the symbol echoed in a success response contain no
\* lower-case letter, whatever the case of the symbol in the request.
C34_SymbolUpperCase ==
    \A r \in Requests :
        LET upper(s) == \A i \in 1..Len(s) : \A k \in 1..26 : s[i] # LowerAlphabet[k]
        IN /\ \A i \in InstructionsOf(tx[r][1], "createMetadataAccountV3") : upper(i.symbol)
           /\ (resp[r] # Undefined /\ resp[r][1].success) => upper(resp[r][1].symbol[1])

\* C35: a request is answered with success (status 200) only if every
\* transaction it submitted executed without error; a phase 1 that executed
\* with an error is followed by no phase 2 and by no success response.
C35_SuccessOnlyIfExecuted ==
    \A r \in Requests :
        /\ (resp[r] # Undefined /\ resp[r][1].status = 200) =>
              \A i \in 1..Len(sent[r]) : phase[r][sent[r][i].phase] = "Confirmed"
        /\ phase[r][1] = "Failed" =>
              /\ ~tx[r][2].built
              /\ phase[r][2] = "None"
              /\ \A i \in 1..Len(sent[r]) : sent[r][i].phase = 1

\* C36: a request answered with status 400 or 405 has passed nothing to
\* sendRawTransaction and has changed nothing on chain: balance, mints and
\* token accounts are as they were before it, and none of its phases was
\* submitted.
C36_RejectionBeforeSubmission ==
    \A r \in Requests :
        (resp[r] # Undefined /\ resp[r][1].status \in {400, 405}) =>
            /\ sent[r] = <<>>
            /\ \A i \in 1..Len(rpc[r]) :
                  rpc[r][i] \notin {"sendRawTransaction", "confirmTransaction"}
            /\ \A p \in 1..2 :
                  phase[r][p] \notin {"Submitted", "Confirmed", "Failed", "Expired", "Rejected"}
            /\ mintKeypair[r] # Undefined =>
                  /\ \A m \in chainMints : m.mint # mintKeypair[r][1]
                  /\ \A k \in chainTokens : k.mint # mintKeypair[r][1]
            /\ Cardinality(Requests) = 1 =>
                  /\ chainMints = {} /\ chainTokens = {}
                  /\ blockHeight = 1
                  /\ backendBalance \in BALANCES

\* a signed phase-1 transaction one byte over the ceiling was refused with
\* status 400, after three RPC calls and before any submission
C36_Witness ==
    \E r \in Requests :
        /\ resp[r] # Undefined
        /\ resp[r][1].status = 400
        /\ tx[r][1].signers # {}
        /\ tx[r][1].size = MAX_TRANSACTION_SIZE + 1
        /\ Len(rpc[r]) = 3
        /\ sent[r] = <<>>

\* C37: every mint-to instruction built for a request the server-side
\* validator accepted carries an amount, prePurchaseAmount * 10^9, that is
\* below 2^64.
C37_MintAmountFitsU64 ==
    \A r \in Requests : \A p \in 1..2 :
        \A i \in InstructionsOf(tx[r][p], "mintTo") : LessDigits(i.amount, U64_LIMIT)

\* C38: a run of handleSubmit issues a request exactly when the wallet is
\* connected, the trimmed name and the trimmed ticker are not empty, the
\* ticker has at most 10 characters and the parsed pre-purchase amount is a
\* number from 0 to MAX_PREPURCHASE_AMOUNT; the request then carries the
\* trimmed name and loading is set.  Any other run leaves an error message,
\* sends nothing and leaves loading false.  When the request settles,
\* whatever its outcome, loading is false again; the fields are cleared and
\* onTokenCreated is called only when the response was ok, and every other
\* outcome leaves the fields as entered and an error message.
C38_FormSubmitsOnlyValidInput ==
    [][LET d == form.formData
           amount == ParseFloat(IF d.prePurchaseAmount = <<>> THEN <<"0">>
                                ELSE d.prePurchaseAmount)
           valid == /\ form.connected
                    /\ \E i \in 1..Len(d.name) : d.name[i] # " "
                    /\ \E i \in 1..Len(d.ticker) : d.ticker[i] # " "
                    /\ Len(d.ticker) <= 10
                    /\ amount # Undefined
                    /\ ~amount[1].neg
                    /\ \/ LessDigits(amount[1].int, ToDigits(MAX_PREPURCHASE_AMOUNT))
                       \/ amount[1].int = ToDigits(MAX_PREPURCHASE_AMOUNT) /\ ~amount[1].half
           submitted == form'.submits = form.submits + 1
           settled == form.step = "fetching" /\ form'.step = "idle"
       IN /\ form'.requests # form.requests => submitted
          /\ (submitted /\ valid) =>
                /\ form'.requests = form.requests + 1
                /\ form'.loading
                /\ form'.body # Undefined
                /\ form'.body[1].name[1] # <<>>
                /\ form'.body[1].symbol[1] # <<>>
                /\ Len(form'.body[1].symbol[1]) <= 10
          /\ (submitted /\ ~valid) =>
                /\ form'.requests = form.requests
                /\ form'.body = form.body
                /\ form'.error # ""
                /\ ~form'.loading
                /\ form'.step = "idle"
          /\ settled =>
                /\ ~form'.loading
                /\ form'.requests = form.requests
                /\ IF form'.outcome = "ok"
                   THEN /\ form'.formData = [f \in FORM_FIELDS |-> <<>>]
                        /\ form'.created = form.created + 1
                   ELSE /\ form'.formData = form.formData
                        /\ form'.created = form.created
                        /\ form'.error # ""
          /\ ~settled => form'.created = form.created
          /\ form'.loading <=> form'.step = "fetching"]_vars

\* handleSubmit ran twice: once it refused the input, once it sent a
\* request with the ticker ' tS' as symbol 'TS'; the response was ok, the
\* fields are cleared and onTokenCreated was called
C38_Witness ==
    /\ form.submits = 2
    /\ form.requests = 1
    /\ form.outcome = "ok"
    /\ form.created = 1
    /\ ~form.loading
    /\ form.formData = EmptyFormData
    /\ form.body # Undefined
    /\ form.body[1].symbol = Some(<<"T", "S">>)
    /\ form.body[1].name = Some(<<"T", "k", "n">>)

\* C39: whatever the custodial secret, a request body the v1 validator
\* rejects with status 400 is rejected by the v2 validator with status 400
\* and the same error message, and for a body whose name has at most 32
\* characters both validators accept or both reject.  A request that was
\* answered before any RPC call got the answer of its route's validator.
C39_V2StrengthensV1 ==
    \A r \in Requests :
        LET q == req[r]
            v1 == ValidateV1(q, backendSecret)
            v2 == ValidateV2(q, backendSecret)
        IN /\ (v1 # Undefined /\ v1[1].status = 400) =>
                 /\ v2 # Undefined
                 /\ v2[1].status = 400
                 /\ v2[1].error = v1[1].error
           /\ (q.name = Undefined \/ Len(q.name[1]) <= 32) =>
                 ((v1 = Undefined) <=> (v2 = Undefined))
           /\ (pc[r] = "done" /\ rpc[r] = <<>>) =>
                 resp[r] = IF q.route = "v2" THEN v2 ELSE v1

\* C39, amended: a request body the v1 validator rejects with status 400 is
\* rejected by the v2 validator with status 400, with the same message when
\* its name has at most 32 characters and with the name-length message when
\* its name is longer; for a body whose name has at most 32 characters the
\* two validators give the same answer.
C39_V2StrengthensV1UpToNameCheck ==
    \A r \in Requests :
        LET q == req[r]
            v1 == ValidateV1(q, backendSecret)
            v2 == ValidateV2(q, backendSecret)
            long == q.name # Undefined /\ Len(q.name[1]) > 32
        IN /\ (v1 # Undefined /\ v1[1].status = 400) =>
                 /\ v2 # Undefined
                 /\ v2[1].status = 400
                 /\ v2[1].error =
                       IF long /\ v1[1].error # Some(<<"Missing required fields: name, symbol, or userWallet">>)
                       THEN Some(<<"Token name must be 32 characters or less (Solana transaction size limit)">>)
                       ELSE v1[1].error
           /\ ~long => v1 = v2
           /\ (pc[r] = "done" /\ rpc[r] = <<>>) =>
                 resp[r] = IF q.route = "v2" THEN v2 ELSE v1

\* a v2 request with a name of 33 characters and a symbol of 11 was answered
\* with the name-length message, where the v1 validator reports the symbol
C39_Witness ==
    \E r \in Requests :
        /\ req[r].route = "v2"
        /\ req[r].name = Some(Rep("N", 33))
        /\ req[r].symbol = Some(Rep("S", 11))
        /\ req[r].userWallet # Undefined
        /\ req[r].method = "POST"
        /\ pc[r] = "done"
        /\ resp[r] # Undefined
        /\ resp[r][1].status = 400
        /\ resp[r][1].error # ValidateV1(req[r], backendSecret)[1].error
        /\ ValidateV1(req[r], backendSecret)[1].status = 400

====
